---- MODULE Spec2Model ----
(***************************************************************************)
(* Block ingestion (ChainDB.StoreBlock / storeTxns) and chain              *)
(* reorganisation (ChainDB.TipToSideChain) of db/dcrpg/pgblockchain.go.    *)
(*                                                                         *)
(* The Row Store primitives (InsertVouts, InsertBlock, UpdateVotesMainchain*)
(* ...) live in files of the repository that are not part of the sources   *)
(* at hand; they are modelled from section 4.2 of the specification and    *)
(* from the way pgblockchain.go uses their results.                        *)
(***************************************************************************)
EXTENDS Integers, Sequences, FiniteSets, TLC

----------------------------------------------------------------------------
(* Bounds of the model *)

\* number of StoreBlock / TipToSideChain calls in one behaviour in which no
\* storage call fails
MaxCalls == 2

\* number of StoreBlock / TipToSideChain calls in one behaviour in which
\* storage calls fail
MaxCallsFail == 1

\* number of storage calls that report a failure in one behaviour
MaxFail == 1

\* cap on the iterations of the TipToSideChain loop
MaxMoved == 3

\* number of blocks stored while the caches are in use
MaxHeight == 2

\* number of operations applied to a TicketTxnIDGetter
MaxOps == 4

\* number of rows of the vins table when the spending info of all addresses
\* is rebuilt
MaxVins == 5

\* number of vin row ids that UpdateSpendingInfoInAllAddresses hands to one
\* database transaction (500 in the program)
updatesPerDBTx == 2

\* height of the stake database before it is rewound
MaxStakeHeight == 3

\* number of tickets that are missed, revoked or expired in one block
MaxTickets == 3

----------------------------------------------------------------------------
(* State *)

VARIABLES
    db,             \* the tables behind pgb.db
    bestBlock,      \* pgb.bestBlock
    bestBlockHash,  \* pgb.bestBlockHash
    lastBlock,      \* pgb.lastBlock: the block hashes with a cached row id
    ticketCache,    \* pgb.unspentTicketCache.idCache: the cached ticket hashes
    cfg,            \* updateAddressesSpendingInfo, updateTicketsSpendingInfo,
                    \* the duplicate-insert behaviour of the Row Store and
                    \* the calls the caller makes
    pc,             \* position of the caller in StoreBlock / TipToSideChain
    args,           \* arguments of the call in progress
    task,           \* the two storeTxns goroutines of StoreBlock
    loc,            \* local variables of the call in progress
    ret,            \* what the last completed call returned
    calls,          \* number of calls started
    fails,          \* number of storage calls that reported a failure
    pre,            \* best height/hash and failure count when the call began
    snap,           \* the tables and counts when a call is repeated unchanged
    trace,          \* the storage steps carried out in the call in progress
    phase,          \* "sync": an earlier run of the program fills the tables;
                    \* "run": the program was started again on these tables
    ab,             \* pgb.addressCounts and the callers of addressBalance
    tp,             \* ticketPoolGraphsCache, pgb.tpUpdatePermission and the
                    \* callers of TicketPoolVisualization
    dfb,            \* pgb.DevFundBalance and the callers of UpdateDevBalance
    tg,             \* a TicketTxnIDGetter, or a nil pointer to one, and the
                    \* operations applied to it
    upd,            \* the call of UpdateSpendingInfoInAllAddresses in
                    \* progress and the signal that asks it to stop
    rw,             \* the stake database of the wiredDB and the call of
                    \* RewindStakeDB in progress
    ps              \* what storeTxns found of the missed and expired tickets
                    \* of a block, and the pool status batch it built

vars == <<db, bestBlock, bestBlockHash, lastBlock, ticketCache, cfg, pc, args,
          task, loc, ret, calls, fails, pre, snap, trace, phase, ab, tp, dfb, tg, upd, rw, ps>>

----------------------------------------------------------------------------
(* The blocks handed to StoreBlock: a chain A <- B <- C and a competing    *)
(* branch A <- Bp <- Cp.                                                   *)

Blocks == {"A", "B", "C", "Bp", "Cp"}

\* chainhash.Hash{}: the previous hash of the first block
ZeroHash == "0"

\* the empty string a failed hash query leaves in its result
NoHash == ""

\* msgBlock.Header.PrevBlock
PrevBlock(b) ==
    CASE b = "A" -> ZeroHash
      [] b = "B" -> "A"
      [] b = "C" -> "B"
      [] b = "Bp" -> "A"
      [] b = "Cp" -> "Bp"
      [] OTHER -> NoHash

\* msgBlock.Header.Height
HeaderHeight(b) ==
    CASE b = "A" -> 0
      [] b \in {"B", "Bp"} -> 1
      [] b \in {"C", "Cp"} -> 2
      [] OTHER -> 0

\* the two transaction trees of a block
Trees == {"reg", "stk"}

\* the blocks whose stake tree has a revocation in place of the vote, when
\* the caller is given such blocks
Revokes(b) == cfg.revoke /\ b \in {"C", "Bp", "Cp"}

\* dbtypes.ExtractBlockTransactions: the transactions of one tree, in block
\* order. Regular tree: coinbase r0 and r1; stake tree: a ticket purchase tk
\* and, in a block with a parent, a vote vt or a revocation rv.
TreeTxs(b, tree) ==
    IF tree = "reg" THEN << <<b, "r0">>, <<b, "r1">> >>
    ELSE IF PrevBlock(b) = ZeroHash THEN << <<b, "tk">> >>
    ELSE IF Revokes(b) THEN << <<b, "tk">>, <<b, "rv">> >>
    ELSE << <<b, "tk">>, <<b, "vt">> >>

\* the elements of a sequence
SeqRange(s) == {s[i] : i \in 1..Len(s)}

\* all transactions of a block
BlockTxs(b) == SeqRange(TreeTxs(b, "reg")) \cup SeqRange(TreeTxs(b, "stk"))

\* the transactions of the regular tree of a block
RegularTxs(b) == { <<b, "r0">>, <<b, "r1">> }

\* dbTxVouts[it]: every transaction has one output
VoutsOf(t) == { <<t[1], t[2], 0>> }

\* dbTxVins[it]: a vote has a stakebase input and the ticket input, every
\* other transaction has one input
VinsOf(t) ==
    IF t[2] = "vt" THEN { <<t[1], t[2], 0>>, <<t[1], t[2], 1>> }
    ELSE { <<t[1], t[2], 0>> }

\* the outpoint of no transaction (coinbase and stakebase inputs)
ZeroOut == <<ZeroHash, "", 0>>

\* vin.PrevTxHash / vin.PrevTxIndex: r1 spends r0 of its own block, a ticket
\* spends r1 of the parent block, a vote (with its second input) and a
\* revocation spend the parent block's ticket
PrevOut(v) ==
    CASE v[2] = "r0" -> ZeroOut
      [] v[2] = "r1" -> <<v[1], "r0", 0>>
      [] v[2] = "tk" -> IF PrevBlock(v[1]) = ZeroHash THEN ZeroOut
                        ELSE <<PrevBlock(v[1]), "r1", 0>>
      [] v[2] = "vt" -> IF v[3] = 0 THEN ZeroOut
                        ELSE <<PrevBlock(v[1]), "tk", 0>>
      [] v[2] = "rv" -> <<PrevBlock(v[1]), "tk", 0>>
      [] OTHER -> ZeroOut

\* the block a row identifier (transaction, input or output) belongs to
BlockOf(x) == x[1]

\* the transaction an input or output row belongs to
TxOf(x) == <<x[1], x[2]>>

BlockVins(b) == UNION {VinsOf(t) : t \in BlockTxs(b)}

BlockVouts(b) == UNION {VoutsOf(t) : t \in BlockTxs(b)}

\* the inputs of a tree that are not coinbase/stakebase inputs, in the order
\* storeTxns visits them
SpendVins(b, tree) ==
    IF tree = "reg" THEN << <<b, "r1", 0>> >>
    ELSE IF PrevBlock(b) = ZeroHash THEN << >>
    ELSE IF Revokes(b) THEN << <<b, "tk", 0>>, <<b, "rv", 0>> >>
    ELSE << <<b, "tk", 0>>, <<b, "vt", 1>> >>

\* dbBlock.VoteBits&1 != 0: C and Cp disapprove their parent
VoteBitsApprove(b) == b \notin {"C", "Cp"}

----------------------------------------------------------------------------
(* Row Store: the tables and the primitives that act on them.              *)
(* A row identifier is the row's natural key. An insert of a row whose key *)
(* is already stored returns the identifier of the stored row; it leaves   *)
(* the row as it is (up = FALSE) or stamps the classification flags of the *)
(* new row on it (up = TRUE).                                              *)

EmptyFn == [x \in {} |-> 0]

\* the matching transaction of an address row that has none yet
NoTx == <<"", "">>

EmptyDB ==
    [blocks |-> EmptyFn, txns |-> EmptyFn, vins |-> EmptyFn, vouts |-> {},
     addrs |-> EmptyFn, tickets |-> EmptyFn, votes |-> EmptyFn,
     misses |-> {}, next |-> EmptyFn]

InsertRows(tbl, ks, New(_), Over(_, _), up) ==
    [k \in (DOMAIN tbl) \cup ks |->
        IF k \notin ks THEN tbl[k]
        ELSE IF k \notin DOMAIN tbl THEN New(k)
        ELSE IF up THEN Over(tbl[k], New(k))
        ELSE tbl[k]]

\* update of the rows of tbl with a key in ks; keys without a row are skipped
UpdateRows(tbl, ks, Upd(_)) ==
    [k \in DOMAIN tbl |-> IF k \in ks THEN Upd(tbl[k]) ELSE tbl[k]]

OverFlags(old, new) ==
    [old EXCEPT !.is_valid = new.is_valid, !.is_mainchain = new.is_mainchain]

OverMainchain(old, new) == [old EXCEPT !.is_mainchain = new.is_mainchain]

OverValidMainchain(old, new) ==
    [old EXCEPT !.valid_mainchain = new.valid_mainchain]

KeepRow(old, new) == old

InsertVouts(d, t) == [d EXCEPT !.vouts = @ \cup VoutsOf(t)]

InsertVins(d, t, isValid, isMainchain, up) ==
    [d EXCEPT !.vins = InsertRows(@, VinsOf(t),
        LAMBDA k : [is_valid |-> isValid, is_mainchain |-> isMainchain],
        OverFlags, up)]

\* vinIds and voutIds are the identifiers InsertVins and InsertVouts returned
InsertTxns(d, txs, vinIds, voutIds, isValid, isMainchain, up) ==
    [d EXCEPT !.txns = InsertRows(@, txs,
        LAMBDA t : [is_valid |-> isValid, is_mainchain |-> isMainchain,
                    vinIds |-> vinIds \cap VinsOf(t),
                    voutIds |-> voutIds \cap VoutsOf(t)],
        OverFlags, up)]

\* one tickets row for every ticket purchase among txs
InsertTickets(d, txs, isMainchain, up) ==
    [d EXCEPT !.tickets = InsertRows(@, {t \in txs : t[2] = "tk"},
        LAMBDA t : [is_mainchain |-> isMainchain, pool_status |-> "live",
                    spend_height |-> -1],
        OverMainchain, up)]

\* one votes row for every vote among txs, and one misses row for every
\* validator whose ticket no vote among txs spends
InsertVotes(d, txs, validators, isMainchain, up) ==
    [d EXCEPT !.votes = InsertRows(@, {t \in txs : t[2] = "vt"},
        LAMBDA t : [is_mainchain |-> isMainchain],
        OverMainchain, up),
              !.misses = @ \cup
                 (validators \
                    {TxOf(PrevOut(<<t[1], t[2], 1>>)) :
                        t \in {x \in txs : x[2] = "vt"}})]

SetSpendingForTickets(d, tks, height, status) ==
    [d EXCEPT !.tickets = UpdateRows(@, tks,
        LAMBDA r : [r EXCEPT !.pool_status = status, !.spend_height = height])]

\* funding rows, one for every output
InsertAddressRows(d, vouts, validMainchain, up) ==
    [d EXCEPT !.addrs = InsertRows(@, {<<"f", o>> : o \in vouts},
        LAMBDA k : [valid_mainchain |-> validMainchain, matching |-> NoTx],
        OverValidMainchain, up)]

\* the spending row of input v and the matching transaction of the funding
\* row of the outpoint v spends; nothing when that outpoint has no funding row
SetSpendingForFundingOP(d, v, validMainchain, up) ==
    LET f == <<"f", PrevOut(v)>>
        withRow == InsertRows(d.addrs, {<<"s", v>>},
                      LAMBDA k : [valid_mainchain |-> validMainchain,
                                  matching |-> NoTx],
                      OverValidMainchain, up)
    IN  IF f \notin DOMAIN d.addrs THEN d
        ELSE [d EXCEPT !.addrs =
                [withRow EXCEPT ![f] = [@ EXCEPT !.matching = TxOf(v)]]]

InsertBlock(d, b, txIds, isValid, isMainchain, up) ==
    [d EXCEPT !.blocks = InsertRows(@, {b},
        LAMBDA k : [is_valid |-> isValid, is_mainchain |-> isMainchain,
                    txIds |-> txIds],
        OverFlags, up)]

\* the block_chain row of b, with an empty next hash
InsertBlockPrevNext(d, b) ==
    [d EXCEPT !.next = InsertRows(@, {b}, LAMBDA k : NoHash, KeepRow, FALSE)]

UpdateBlockNext(d, last, b) ==
    [d EXCEPT !.next = UpdateRows(@, {last}, LAMBDA r : b)]

UpdateLastBlockValid(d, last, isValid) ==
    [d EXCEPT !.blocks = UpdateRows(@, {last},
        LAMBDA r : [r EXCEPT !.is_valid = isValid])]

\* the stored regular-tree transactions of block b
StoredRegularTxs(d, b) == RegularTxs(b) \cap DOMAIN d.txns

\* the stored transactions of block b
StoredTxs(d, b) == {t \in DOMAIN d.txns : BlockOf(t) = b}

UpdateLastVins(d, last, isValid, isMainchain) ==
    [d EXCEPT !.vins = UpdateRows(@,
        UNION {d.txns[t].vinIds : t \in StoredRegularTxs(d, last)},
        LAMBDA r : [r EXCEPT !.is_valid = isValid,
                             !.is_mainchain = isMainchain])]

UpdateTransactionsValid(d, last, isValid) ==
    [d EXCEPT !.txns = UpdateRows(@, StoredRegularTxs(d, last),
        LAMBDA r : [r EXCEPT !.is_valid = isValid])]

UpdateLastAddressesValid(d, last, isValid) ==
    [d EXCEPT !.addrs = UpdateRows(@,
        {k \in DOMAIN d.addrs : TxOf(k[2]) \in RegularTxs(last)},
        LAMBDA r : [r EXCEPT !.valid_mainchain = isValid])]

\* the hash a block hash query returns: the previous hash of a stored block,
\* the empty string when the block has no row
SetMainchainByBlockHashResult(d, h) ==
    IF h \in DOMAIN d.blocks THEN PrevBlock(h) ELSE NoHash

SetMainchainByBlockHash(d, h, isMainchain) ==
    [d EXCEPT !.blocks = UpdateRows(@, {h},
        LAMBDA r : [r EXCEPT !.is_mainchain = isMainchain])]

UpdateTransactionsMainchain(d, h, isMainchain) ==
    [d EXCEPT !.txns = UpdateRows(@, StoredTxs(d, h),
        LAMBDA r : [r EXCEPT !.is_mainchain = isMainchain])]

\* the vins and vouts row identifiers of the transactions of block h
RetrieveVinsByBlock(d, h) == UNION {d.txns[t].vinIds : t \in StoredTxs(d, h)}

RetrieveVoutsByBlock(d, h) == UNION {d.txns[t].voutIds : t \in StoredTxs(d, h)}

\* the is_mainchain flag of the transaction that lists input v
RetrieveTxMainchain(d, v) == d.txns[TxOf(v)].is_mainchain

UpdateAddressesMainchainByIDs(d, vinIds, voutIds, isMainchain) ==
    [d EXCEPT !.addrs = UpdateRows(@,
        {<<"s", v>> : v \in vinIds} \cup {<<"f", o>> : o \in voutIds},
        LAMBDA r : [r EXCEPT !.valid_mainchain = isMainchain])]

UpdateVotesMainchain(d, h, isMainchain) ==
    [d EXCEPT !.votes = UpdateRows(@, {t \in DOMAIN d.votes : BlockOf(t) = h},
        LAMBDA r : [r EXCEPT !.is_mainchain = isMainchain])]

UpdateTicketsMainchain(d, h, isMainchain) ==
    [d EXCEPT !.tickets = UpdateRows(@,
        {t \in DOMAIN d.tickets : BlockOf(t) = h},
        LAMBDA r : [r EXCEPT !.is_mainchain = isMainchain])]

\* the stored tickets without a spending transaction
RetrieveUnspentTickets(d) ==
    {t \in DOMAIN d.tickets : d.tickets[t].spend_height = -1}

\* height of a stored block; 0 is what a failed query leaves in its result
RetrieveBlockHeight(d, h) == IF h \in DOMAIN d.blocks THEN HeaderHeight(h) ELSE 0

\* result of a storage call: done, failed, or sql.ErrNoRows
Outcomes == IF cfg.norows THEN {"ok", "norows"} ELSE {"ok", "err"}

\* an insert reports sql.ErrNoRows for rows that are stored already, when a
\* duplicate insert leaves the stored row alone
NoRows(o, stored) == o = "norows" => (stored /\ ~cfg.upsert)

\* err != nil
IsErr(o) == o # "ok"

\* err != nil && err != sql.ErrNoRows
IsFatal(o) == o \notin {"ok", "norows"}

\* the value of err after a storage call
ErrOf(o) == IF o = "ok" THEN "nil" ELSE o

\* the row ids a duplicate-safe insert of rows returns: none with
\* sql.ErrNoRows
ReturnedIds(o, rows) == IF o = "norows" THEN {} ELSE rows

\* a storage call reports a failure at most cfg.maxFail times in a
\* behaviour, and never in the earlier run that filled the tables
Budget(o) ==
    IF o = "ok" THEN fails' = fails
    ELSE phase = "run" /\ fails < cfg.maxFail /\ fails' = fails + 1

\* a storeTxns that was not started. node tells whether it holds the lock
\* of the stake node, locks counts its LockStakeNode calls, reads and
\* unlockedReads are what it read of the stake node with and without the
\* lock
TaskOff ==
    [pc |-> "off", it |-> 1, voutIds |-> {}, vinIds |-> {}, txIds |-> {},
     spent |-> {}, err |-> "nil", node |-> "free", locks |-> 0, reads |-> {},
     unlockedReads |-> {}]

\* a storeTxns that inserts the inputs of a transaction before its outputs
TaskStartVinsFirst == [TaskOff EXCEPT !.pc = "InsertVins"]

\* storeTxns begins with the outputs of the first transaction
TaskStart == [TaskOff EXCEPT !.pc = "InsertVouts"]

NoArgs ==
    [op |-> "none", block |-> NoHash, isValid |-> FALSE, isMainchain |-> FALSE,
     mainRoot |-> NoHash]

NoLoc ==
    [err |-> "nil", numVins |-> 0, numVouts |-> 0, tipHash |-> NoHash,
     tip0 |-> NoHash, previousHash |-> NoHash, blocksMoved |-> 0,
     vinDbIDsBlk |-> {}, voutDbIDsBlk |-> {}]

NoRet ==
    [op |-> "none", block |-> NoHash, isValid |-> FALSE, isMainchain |-> FALSE,
     mainRoot |-> NoHash, err |-> "nil", numVins |-> 0, numVouts |-> 0,
     finalHash |-> NoHash, blocksMoved |-> 0, clean |-> TRUE]

NoSnap == [on |-> FALSE, db |-> EmptyDB, numVins |-> 0, numVouts |-> 0]

\* the value a call returns, with the arguments it was called with
RetOf(a, err, numVins, numVouts, finalHash, blocksMoved, clean) ==
    [op |-> a.op, block |-> a.block, isValid |-> a.isValid,
     isMainchain |-> a.isMainchain, mainRoot |-> a.mainRoot, err |-> err,
     numVins |-> numVins, numVouts |-> numVouts, finalHash |-> finalHash,
     blocksMoved |-> blocksMoved, clean |-> clean]

\* stakeSubmissionVinInd: the index of the input of a vote or revocation
\* that spends the ticket
StakeSubmissionVinInd(t) == IF t[2] = "vt" THEN 1 ELSE 0

\* the tickets spent by the transactions of type ty (vote "vt", revocation
\* "rv") among txs
SpentBy(txs, ty) ==
    {TxOf(PrevOut(<<t[1], t[2], StakeSubmissionVinInd(t)>>)) :
        t \in {x \in txs : x[2] = ty}}

\* the tickets spent by the votes and revocations among txs
SpentTickets(txs) == SpentBy(txs, "vt") \cup SpentBy(txs, "rv")

\* the chains an earlier run of the program stored: the tables the program
\* finds when it is started
StartChains == { << >>, <<"A", "B">>, <<"A", "B", "C">> }

\* the chains an earlier run stored, for the behaviours with failing storage
\* calls
StartChainsFail == { << >>, <<"A", "B", "C">> }

\* the arguments updateAddressesSpendingInfo and updateTicketsSpendingInfo
\* the caller uses, and the duplicate-insert behaviour of the Row Store
CfgInputs ==
    [updAddr : BOOLEAN, updTkt : BOOLEAN, upsert : BOOLEAN]

\* Store calls StoreBlock with both arguments true
CfgInputsFail == {c \in CfgInputs : c.updAddr /\ c.updTkt}

\* a call of the caller: StoreBlock(block, isValid = true, isMainchain) or
\* TipToSideChain(block)
CallOf(op, b, isMainchain) ==
    [op |-> op, block |-> b, isMainchain |-> isMainchain]

\* the reorganisation of chain A, B, C to A, Bp, Cp, carried out twice
ReorgScript ==
    << CallOf("tip", "A", FALSE), CallOf("store", "Bp", TRUE),
       CallOf("store", "Cp", TRUE),
       CallOf("tip", "A", FALSE), CallOf("store", "Bp", TRUE),
       CallOf("store", "Cp", TRUE) >>

\* the earlier run stores the blocks of cfg.chain in order as main chain
\* blocks; after the restart the caller makes the calls of cfg.script in
\* order or, with no script, any cfg.maxCalls calls
MayCall(op, b, isMainchain) ==
    IF phase = "sync"
    THEN /\ calls < Len(cfg.chain)
         /\ CallOf(op, b, isMainchain) = CallOf("store", cfg.chain[calls + 1],
                                                TRUE)
    ELSE IF cfg.script = << >> THEN calls < cfg.maxCalls
    ELSE /\ calls < Len(cfg.script)
         /\ cfg.script[calls + 1] = CallOf(op, b, isMainchain)

\* the goroutines that call addressBalance and TicketPoolVisualization
Callers == {"c1", "c2"}

\* the addresses whose balance is asked for
Addrs == {"a1", "a2"}

\* the chart groupings
Intervals == {"day", "wk"}

\* no balance: the nil result of a failed call
NoBalance == -1

\* makeAddressCounter: validHeight 0 and an empty balance map
makeAddressCounter == [validHeight |-> 0, balance |-> EmptyFn]

\* a goroutine that has not called addressBalance
AddressBalanceIdle ==
    [pc |-> "idle", op |-> "", address |-> "", bestBlock |-> 0, stale |-> FALSE,
     fresh |-> FALSE, balanceInfo |-> NoBalance, err |-> "nil", epoch |-> 0,
     overlap |-> FALSE]

\* pgb.addressCounts after NewChainDB, its mutex free; height is the best
\* block height the blocks table holds, reset the height of a stored block
\* whose reset of the counter is to come, epoch counts the stored blocks
\* and resets, queries the balance queries that reached storage
AddressCountsInit ==
    [totals |-> makeAddressCounter, lock |-> "none", height |-> 0,
     reset |-> 0, epoch |-> 0, queries |-> [a \in Addrs |-> 0],
     call |-> [c \in Callers |-> AddressBalanceIdle]]

\* an interval ticketPoolGraphsCache holds no charts for: the Height map
\* reads 0 for it
NoCharts == [found |-> FALSE, Height |-> 0, charts |-> 0]

\* a goroutine that has not called TicketPoolVisualization
TicketPoolIdle ==
    [pc |-> "idle", interval |-> "", intervalFound |-> FALSE,
     stale |-> FALSE, height |-> 0, charts |-> 0, err |-> "nil",
     updater |-> FALSE, contended |-> FALSE, waited |-> FALSE,
     repeated |-> FALSE]

\* the empty ticketPoolGraphsCache and, from NewChainDB, one free updater
\* mutex per chart grouping; version counts the changes to the ticket
\* tables
TicketPoolInit ==
    [cache |-> [i \in Intervals |-> NoCharts],
     permission |-> [i \in Intervals |-> "none"],
     version |-> 0,
     call |-> [c \in Callers |-> TicketPoolIdle]]

\* the ticket hashes and the row ids given to a TicketTxnIDGetter
TicketHashes == {"t1", "t2"}
TicketDbIDs == {1, 2}

\* no operation was applied
NoOp == [op |-> "none", txid |-> "", expire |-> FALSE, id |-> 0,
         err |-> "nil", query |-> [id |-> 0, err |-> "nil"]]

\* NewTicketTxnIDGetter: an empty idCache. isNil tells that the pointer is
\* nil, set the row id last given to Set or SetN for a hash, n the number
\* of operations applied, last the last operation and what it returned
NewTicketTxnIDGetter ==
    [isNil |-> FALSE, idCache |-> EmptyFn, set |-> EmptyFn, n |-> 0,
     last |-> NoOp]

\* a goroutine that has not called UpdateDevBalance or DevBalance. holder
\* is the goroutine that held the updating mutex when the TryLock of this
\* one failed, "finished" once that goroutine's updateDevBalance returned;
\* bal is the balance DevBalance read for its caller
UpdateDevBalanceIdle ==
    [pc |-> "idle", okToUpdate |-> FALSE, updated |-> FALSE, err |-> "nil",
     prev |-> [Hash |-> ZeroHash, Height |-> 0], op |-> "", holder |-> "none",
     bal |-> "nil"]

\* no call of UpdateSpendingInfoInAllAddresses is in progress. quit is the
\* quit channel of the sync that calls it: TRUE once it is closed; log
\* lists the SetSpendingForVinDbIDs calls of the last call: the slice
\* allVinDbIDs[from:to] each was given and what it reported
UpdateSpendingIdle ==
    [pc |-> "idle", totalVinIbIDs |-> 0, i |-> 0, numAddresses |-> 0,
     err |-> "nil", quit |-> FALSE, chunks |-> 0, afterQuit |-> 0,
     ret |-> [numAddresses |-> 0, err |-> "nil"], returned |-> FALSE,
     log |-> << >>]

\* the stake database at its genesis block, its quit channel open, and no
\* call of RewindStakeDB in progress
RewindIdle ==
    [pc |-> "idle", Height |-> 0, quit |-> FALSE, toHeight |-> 0, arg |-> 0,
     fromHeight |-> 0, stakeDBHeight |-> 0, err |-> "nil",
     disconnected |-> 0, cancelled |-> FALSE,
     ret |-> [stakeDBHeight |-> 0, err |-> "nil"], returned |-> FALSE]

\* no pool status batch was built
NoBatch ==
    [done |-> FALSE, missesHashIDs |-> << >>, revokes |-> {},
     MissedByBlock |-> << >>, expired |-> {}, unspentEnM |-> << >>,
     missStatuses |-> << >>]

\* new(DevFundBalance): no balance, height 0, the zero hash, both mutexes
\* free; best is the best block of the blocks table, refresh tells that
\* StoreBlock started a goroutine that calls UpdateDevBalance
DevFundBalanceInit ==
    [AddressBalance |-> "nil", Height |-> 0, Hash |-> ZeroHash,
     updating |-> "none", lock |-> "none", best |-> "A", refresh |-> FALSE,
     call |-> [c \in Callers |-> UpdateDevBalanceIdle]]

\* nothing is stored and no call was made
InitChainDB ==
    /\ db = EmptyDB
    /\ bestBlock = 0
    /\ bestBlockHash = NoHash
    /\ ticketCache = {}
    /\ lastBlock = {}
    /\ pc = "idle"
    /\ args = NoArgs
    /\ task = [tr \in Trees |-> TaskOff]
    /\ loc = NoLoc
    /\ ret = NoRet
    /\ calls = 0
    /\ fails = 0
    /\ pre = [bestBlock |-> 0, bestBlockHash |-> NoHash, fails |-> 0]
    /\ snap = NoSnap
    /\ trace = {}
    /\ phase = "sync"
    /\ ab = AddressCountsInit
    /\ tp = TicketPoolInit
    /\ dfb = DevFundBalanceInit
    /\ tg = NewTicketTxnIDGetter
    /\ upd = UpdateSpendingIdle
    /\ rw = RewindIdle
    /\ ps = NoBatch

\* any calls, no storage call fails
Init ==
    /\ cfg \in {[updAddr |-> c.updAddr, updTkt |-> c.updTkt,
                  upsert |-> c.upsert, maxCalls |-> MaxCalls, maxFail |-> 0,
                  chain |-> ch, script |-> << >>, norows |-> FALSE, revoke |-> FALSE,
                  expired |-> FALSE,
                  inBatchSync |-> TRUE, devPrefetch |-> FALSE,
                  inReorg |-> FALSE] :
                     c \in CfgInputs, ch \in StartChains}
    /\ InitChainDB

\* any calls, storage calls may fail
InitFail ==
    /\ cfg \in {[updAddr |-> c.updAddr, updTkt |-> c.updTkt,
                  upsert |-> c.upsert, maxCalls |-> MaxCallsFail,
                  maxFail |-> MaxFail, chain |-> ch, script |-> << >>,
                  norows |-> FALSE, revoke |-> FALSE,
                  expired |-> FALSE,
                  inBatchSync |-> TRUE, devPrefetch |-> FALSE,
                  inReorg |-> FALSE] :
                     c \in CfgInputsFail, ch \in StartChainsFail}
    /\ InitChainDB

\* the calls of ReorgScript on the stored chain A, B, C
InitReorg ==
    /\ cfg \in {[updAddr |-> c.updAddr, updTkt |-> c.updTkt,
                  upsert |-> c.upsert, maxCalls |-> 0, maxFail |-> 0,
                  chain |-> <<"A", "B", "C">>, script |-> ReorgScript,
                  norows |-> FALSE, revoke |-> FALSE,
                  expired |-> FALSE,
                  inBatchSync |-> TRUE, devPrefetch |-> FALSE,
                  inReorg |-> FALSE] :
                     c \in CfgInputs}
    /\ InitChainDB

\* any calls, storage calls may report sql.ErrNoRows
InitNoRows ==
    /\ cfg \in {[updAddr |-> c.updAddr, updTkt |-> c.updTkt,
                  upsert |-> c.upsert, maxCalls |-> MaxCallsFail,
                  maxFail |-> MaxFail, chain |-> ch, script |-> << >>,
                  norows |-> TRUE, revoke |-> FALSE, expired |-> FALSE,
                  inBatchSync |-> TRUE, devPrefetch |-> FALSE,
                  inReorg |-> FALSE] :
                     c \in CfgInputsFail, ch \in StartChainsFail}
    /\ InitChainDB

\* any calls, storage calls may fail; batch sync is on or off, the project
\* fund balance is prefetched or not, a reorganization is under way or not
InitBatch ==
    /\ cfg \in {[updAddr |-> c.updAddr, updTkt |-> c.updTkt,
                  upsert |-> c.upsert, maxCalls |-> MaxCallsFail,
                  maxFail |-> MaxFail, chain |-> ch, script |-> << >>,
                  norows |-> FALSE, revoke |-> FALSE, expired |-> FALSE,
                  inBatchSync |-> f[1], devPrefetch |-> f[2],
                  inReorg |-> f[3]] :
                     c \in CfgInputsFail, ch \in StartChainsFail,
                     f \in BOOLEAN \X BOOLEAN \X BOOLEAN}
    /\ InitChainDB

\* the chains an earlier run stored, for the behaviours with a revocation
StartChainsRevoke == { <<"A", "B">>, <<"A", "B", "C">> }

\* any calls on blocks C and Cp with a revocation, storage calls may fail;
\* the stake database reports the revoked ticket as expired or not
InitRevoke ==
    /\ cfg \in {[updAddr |-> c.updAddr, updTkt |-> c.updTkt,
                  upsert |-> c.upsert, maxCalls |-> MaxCallsFail,
                  maxFail |-> MaxFail, chain |-> ch, script |-> << >>,
                  norows |-> FALSE, revoke |-> TRUE, expired |-> e,
                  inBatchSync |-> TRUE, devPrefetch |-> FALSE,
                  inReorg |-> FALSE] :
                     c \in CfgInputsFail, ch \in StartChainsRevoke,
                     e \in BOOLEAN}
    /\ InitChainDB

\* any call on the stored chain A, B or A, B, C, the blocks C, Bp and Cp
\* with a revocation in place of the vote, no storage call fails
InitOtherBranch ==
    /\ cfg \in {[updAddr |-> c.updAddr, updTkt |-> c.updTkt,
                  upsert |-> c.upsert, maxCalls |-> MaxCallsFail,
                  maxFail |-> 0, chain |-> ch, script |-> << >>,
                  norows |-> FALSE, revoke |-> TRUE, expired |-> FALSE,
                  inBatchSync |-> TRUE, devPrefetch |-> FALSE,
                  inReorg |-> FALSE] :
                     c \in CfgInputs, ch \in StartChainsRevoke}
    /\ InitChainDB

\* the program runs and serves the explorer: the caches are as NewChainDB
\* left them, storage calls may fail
InitCache ==
    /\ cfg = [updAddr |-> TRUE, updTkt |-> TRUE, upsert |-> TRUE,
              maxCalls |-> 0, maxFail |-> MaxFail, chain |-> << >>,
              script |-> << >>, norows |-> FALSE, revoke |-> FALSE,
              expired |-> FALSE, inBatchSync |-> TRUE, devPrefetch |-> FALSE,
              inReorg |-> FALSE]
    /\ db = EmptyDB
    /\ bestBlock = 0
    /\ bestBlockHash = NoHash
    /\ ticketCache = {}
    /\ lastBlock = {}
    /\ pc = "idle"
    /\ args = NoArgs
    /\ task = [tr \in Trees |-> TaskOff]
    /\ loc = NoLoc
    /\ ret = NoRet
    /\ calls = 0
    /\ fails = 0
    /\ pre = [bestBlock |-> 0, bestBlockHash |-> NoHash, fails |-> 0]
    /\ snap = NoSnap
    /\ trace = {}
    /\ phase = "run"
    /\ ab = AddressCountsInit
    /\ tp = TicketPoolInit
    /\ dfb = DevFundBalanceInit
    /\ tg = NewTicketTxnIDGetter
    /\ upd = UpdateSpendingIdle
    /\ rw = RewindIdle
    /\ ps = NoBatch

\* NewChainDB: the program is started on the tables of the earlier run. The
\* best block is the one the tables hold, the block id cache is empty and
\* the ticket cache holds the unspent tickets.
NewChainDB ==
    /\ pc = "idle"
    /\ phase = "sync"
    /\ calls = Len(cfg.chain)
    /\ phase' = "run"
    /\ lastBlock' = {}
    /\ ticketCache' = RetrieveUnspentTickets(db)
    /\ calls' = 0
    /\ ret' = NoRet
    /\ pre' = [bestBlock |-> bestBlock, bestBlockHash |-> bestBlockHash,
               fails |-> 0]
    /\ snap' = NoSnap
    /\ trace' = {}
    /\ UNCHANGED <<db, bestBlock, bestBlockHash, cfg, pc, args, task, loc,
                   fails, ab, tp, dfb, tg, upd, rw, ps>>

----------------------------------------------------------------------------
(* StoreBlock *)

\* the call returns: its result is recorded and the caller is idle again
Return(a, err, numVins, numVouts, finalHash, blocksMoved) ==
    /\ ret' = RetOf(a, err, numVins, numVouts, finalHash, blocksMoved,
                    fails' = pre'.fails)
    /\ pc' = "idle"
    /\ task' = [tr \in Trees |-> TaskOff]
    /\ loc' = NoLoc
    /\ args' = NoArgs

\* the blocks that are imported as side chain blocks (isMainchain = false)
SideChainBlocks == {"Bp", "Cp"}

\* the last call was a StoreBlock that returned an error: the caller stores
\* the same block again
StoreFailed == ret.op = "store" /\ ret.err # "nil"

\* isMainchain && !bytes.Equal(zeroHash[:], prevBlockHash[:]): the winners
\* of the previous block are asked of the stake database
PoolInfoLookup(b, isMainchain) == isMainchain /\ PrevBlock(b) # ZeroHash

\* winners = tpi.Winners: the tickets called to vote on the previous block;
\* none for a side chain block and for the first block
Winners(b, isMainchain) ==
    IF PoolInfoLookup(b, isMainchain) THEN { <<PrevBlock(b), "tk">> } ELSE {}

\* msgBlock.Validators in storeTxns: emptied for a side chain block
Validators(b, isMainchain) ==
    IF ~isMainchain THEN {} ELSE Winners(b, isMainchain)

\* a StoreBlock that goes on without the winners
PoolInfoIgnored(b, isMainchain, found) == FALSE

\* tpi, found := pgb.stakeDB.PoolInfo(prevBlockHash); if !found: StoreBlock
\* returns an error
PoolInfoFailed(b, isMainchain, found) ==
    PoolInfoLookup(b, isMainchain) /\ ~found

\* StoreBlock up to the start of the two storeTxns goroutines
StoreBlockStart(b, isValid, isMainchain) ==
    /\ pc = "idle"
    /\ MayCall("store", b, isMainchain)
    /\ PrevBlock(b) = ZeroHash \/ PrevBlock(b) \in DOMAIN db.blocks
    /\ isMainchain \/ b \in SideChainBlocks
    /\ StoreFailed => (ret.block = b /\ ret.isMainchain = isMainchain)
    /\ calls' = calls + 1
    /\ pre' = [bestBlock |-> bestBlock, bestBlockHash |-> bestBlockHash,
               fails |-> fails]
    /\ snap' = IF cfg.script # << >> THEN snap
               ELSE IF /\ ret.op = "store" /\ ret.block = b
                  /\ ret.isValid = isValid /\ ret.isMainchain = isMainchain
                  /\ ret.err = "nil" /\ ret.clean
               THEN [on |-> TRUE, db |-> db, numVins |-> ret.numVins,
                     numVouts |-> ret.numVouts]
               ELSE NoSnap
    /\ trace' = {}
    /\ \E found \in BOOLEAN :
        LET a == [op |-> "store", block |-> b, isValid |-> isValid,
                  isMainchain |-> isMainchain, mainRoot |-> NoHash]
        IN  /\ found \/ PoolInfoLookup(b, isMainchain)
            /\ Budget(IF found THEN "ok" ELSE "err")
            /\ IF PoolInfoFailed(b, isMainchain, found)
               THEN Return(a, "err", 0, 0, NoHash, 0)
               ELSE /\ args' = a
                    /\ task' = [tr \in Trees |-> TaskStart]
                    /\ pc' = "join"
                    /\ loc' = NoLoc
                    /\ ret' = ret
    /\ UNCHANGED <<db, bestBlock, bestBlockHash, lastBlock, ticketCache, cfg,
                   phase, ab, tp, dfb, tg, upd, rw, ps>>

----------------------------------------------------------------------------
(* storeTxns: one goroutine per transaction tree *)

\* what every storeTxns step leaves alone
TaskFrame == UNCHANGED <<bestBlock, bestBlockHash, lastBlock, cfg, pc, args,
                         loc, ret, calls, pre, snap, phase, ab, tp, dfb, tg, upd, rw, ps>>

\* a storeTxns that returns without setting txRes.err
TaskFailSilent(tr) == task' = [task EXCEPT ![tr].pc = "done"]

\* storeTxns returns txRes with txRes.err set
TaskFail(tr) == task' = [task EXCEPT ![tr].pc = "done", ![tr].err = "err"]

\* dbtx.VoutDbIds, dbAddressRows[it], err = InsertVouts(...)
InsertVoutsStep(tr) ==
    LET g == task[tr]
        t == TreeTxs(args.block, tr)[g.it]
    IN  /\ g.pc = "InsertVouts"
        /\ \E o \in Outcomes :
            /\ Budget(o)
            /\ NoRows(o, VoutsOf(t) \subseteq db.vouts)
            /\ IF IsFatal(o)
               THEN TaskFail(tr) /\ UNCHANGED <<db, trace>>
               ELSE /\ db' = InsertVouts(db, t)
                    /\ trace' = trace \cup { <<"vout", t[1], t[2]>> }
                    /\ task' = [task EXCEPT ![tr].pc = "InsertVins",
                                   ![tr].voutIds = @ \cup ReturnedIds(o,
                                                             VoutsOf(t))]
        /\ UNCHANGED ticketCache
        /\ TaskFrame

\* a storeTxns that inserts the transaction rows after the first transaction
AfterVinsEarlyTxns(tr, it) == [pc |-> "InsertTxns", it |-> 1]

\* the position after the inputs of transaction it are inserted
AfterVins(tr, it) ==
    IF it < Len(TreeTxs(args.block, tr))
    THEN [pc |-> "InsertVouts", it |-> it + 1]
    ELSE [pc |-> "InsertTxns", it |-> 1]

\* dbtx.VinDbIds, err = InsertVins(...)
InsertVinsStep(tr) ==
    LET g == task[tr]
        t == TreeTxs(args.block, tr)[g.it]
    IN  /\ g.pc = "InsertVins"
        /\ \E o \in Outcomes :
            /\ Budget(o)
            /\ NoRows(o, VinsOf(t) \subseteq DOMAIN db.vins)
            /\ IF IsFatal(o)
               THEN TaskFail(tr) /\ UNCHANGED <<db, trace>>
               ELSE /\ db' = InsertVins(db, t, args.isValid, args.isMainchain,
                                        cfg.upsert)
                    /\ trace' = trace \cup { <<"vin", t[1], t[2]>> }
                    /\ task' = [task EXCEPT ![tr].pc = AfterVins(tr, g.it).pc,
                                   ![tr].it = AfterVins(tr, g.it).it,
                                   ![tr].vinIds = @ \cup ReturnedIds(o,
                                                            VinsOf(t))]
        /\ UNCHANGED ticketCache
        /\ TaskFrame

\* *TxDbIDs, err = InsertTxns(...)
InsertTxnsStep(tr) ==
    LET g == task[tr]
        txs == SeqRange(TreeTxs(args.block, tr))
    IN  /\ g.pc = "InsertTxns"
        /\ \E o \in Outcomes :
            /\ Budget(o)
            /\ NoRows(o, txs \subseteq DOMAIN db.txns)
            /\ IF IsFatal(o)
               THEN TaskFail(tr) /\ UNCHANGED <<db, trace>>
               ELSE /\ db' = InsertTxns(db, txs, g.vinIds, g.voutIds,
                                        args.isValid, args.isMainchain,
                                        cfg.upsert)
                    /\ trace' = trace \cup { <<"txns", args.block, tr>> }
                    /\ task' = [task EXCEPT
                                   ![tr].pc = IF tr = "stk" THEN "InsertTickets"
                                              ELSE "InsertAddressRows",
                                   ![tr].txIds = ReturnedIds(o, txs)]
        /\ UNCHANGED ticketCache
        /\ TaskFrame

\* InsertTickets and, when updateTicketsSpendingInfo is set, the caching of
\* the new tickets' row ids
InsertTicketsStep ==
    LET g == task["stk"]
    IN  /\ g.pc = "InsertTickets"
        /\ \E o \in Outcomes :
            /\ Budget(o)
            /\ NoRows(o, {t \in SeqRange(TreeTxs(args.block, "stk")) :
                              t[2] = "tk"} \subseteq DOMAIN db.tickets)
            /\ IF IsFatal(o)
               THEN TaskFail("stk") /\ UNCHANGED <<db, trace, ticketCache>>
               ELSE /\ db' = InsertTickets(db, g.txIds, args.isMainchain,
                                           cfg.upsert)
                    /\ trace' = trace \cup { <<"tickets", args.block, "stk">> }
                    /\ ticketCache' =
                         IF cfg.updTkt
                         THEN ticketCache \cup {t \in g.txIds : t[2] = "tk"}
                         ELSE ticketCache
                    /\ task' = [task EXCEPT !["stk"].pc = "InsertVotes"]
        /\ TaskFrame

\* InsertVotes
InsertVotesStep ==
    LET g == task["stk"]
    IN  /\ g.pc = "InsertVotes"
        /\ \E o \in Outcomes :
            /\ Budget(o)
            /\ NoRows(o, {t \in SeqRange(TreeTxs(args.block, "stk")) :
                              t[2] = "vt"} \subseteq DOMAIN db.votes)
            /\ IF IsFatal(o)
               THEN TaskFail("stk") /\ UNCHANGED <<db, trace>>
               ELSE /\ db' = InsertVotes(db, g.txIds,
                                         Validators(args.block,
                                                    args.isMainchain),
                                         args.isMainchain, cfg.upsert)
                    /\ trace' = trace \cup { <<"votes", args.block, "stk">> }
                    /\ task' = [task EXCEPT !["stk"].pc =
                                   IF cfg.updTkt THEN "CollectTicketSpendDBInfo"
                                   ELSE "InsertAddressRows"]
        /\ UNCHANGED ticketCache
        /\ TaskFrame

\* a TxnDbID that does not query the tickets table on a cache miss
TxnDbIDFoundCacheOnly(cache, d, t) == t \in cache

\* TicketTxnIDGetter.TxnDbID: a cached id, or else the id of the stored
\* tickets row; TRUE when an id is found
TxnDbIDFound(cache, d, t) == t \in cache \/ t \in DOMAIN d.tickets

\* TicketTxnIDGetter.TxnDbID: the cache after the lookup
TxnDbIDCache(cache, t, expire) ==
    IF t \in cache /\ expire THEN cache \ {t} ELSE cache

\* CollectTicketSpendDBInfo: the row id of every spent ticket is looked up
\* with expire = true; a cache miss queries the tickets table
CollectTicketSpendDBInfoStep ==
    LET g == task["stk"]
        tks == SpentTickets(g.txIds)
        misses == tks \ ticketCache
    IN  /\ g.pc = "CollectTicketSpendDBInfo"
        /\ \E o \in Outcomes :
            /\ Budget(o)
            /\ IsErr(o) => misses # {}
            /\ IF IsErr(o) \/ \E t \in tks : ~TxnDbIDFound(ticketCache, db, t)
               THEN TaskFail("stk") /\ UNCHANGED ticketCache
               ELSE /\ ticketCache' =
                         IF tks = {} THEN ticketCache
                         ELSE TxnDbIDCache(ticketCache,
                                           CHOOSE t \in tks : TRUE, TRUE)
                    /\ task' = [task EXCEPT
                                   !["stk"].pc = "SetSpendingForTickets",
                                   !["stk"].spent = tks]
        /\ UNCHANGED <<db, trace>>
        /\ TaskFrame

\* pgb.stakeDB.BestNode.ExistsExpiredTicket(*h)
ExistsExpiredTicket == cfg.expired

\* poolStatuses[iv] of a revoked ticket
RevokedPoolStatus == IF ~ExistsExpiredTicket THEN "missed" ELSE "expired"

\* the task g after it read what of the stake node
ReadStakeNode(g, what) ==
    IF g.node = "held"
    THEN [g EXCEPT !.reads = @ \cup what]
    ELSE [g EXCEPT !.unlockedReads = @ \cup what]

\* the lock of the stake node between SetSpendingForTickets and the reads
\* of MissedByBlock: still held (mutation: released before them)
StakeNodeReleased == "free"
StakeNodeKept == "held"

\* pgb.stakeDB.LockStakeNode(), the classification of the spent tickets
\* with ExistsExpiredTicket for every revocation, then
\* SetSpendingForTickets: a failure is logged and storeTxns goes on
SetSpendingForTicketsStep ==
    LET g == task["stk"]
        height == HeaderHeight(args.block)
        locked == [g EXCEPT !.node = "held", !.locks = @ + 1]
        classified ==
            ReadStakeNode(locked,
                IF g.spent \cap SpentBy(g.txIds, "rv") # {}
                THEN {"ExistsExpiredTicket"} ELSE {})
    IN  /\ g.pc = "SetSpendingForTickets"
        /\ \E o \in Outcomes :
            /\ Budget(o)
            /\ db' = IF IsErr(o) THEN db
                     ELSE SetSpendingForTickets(
                              SetSpendingForTickets(db,
                                  g.spent \cap SpentBy(g.txIds, "vt"),
                                  height, "voted"),
                              g.spent \cap SpentBy(g.txIds, "rv"),
                              height, RevokedPoolStatus)
        /\ task' = [task EXCEPT !["stk"] =
                        [classified EXCEPT
                            !.pc = "SetPoolStatusForTicketsByHash",
                            !.node = StakeNodeKept]]
        /\ UNCHANGED <<ticketCache, trace>>
        /\ TaskFrame

\* pgb.stakeDB.BestNode.MissedByBlock(), pgb.stakeDB.UnlockStakeNode(),
\* then SetPoolStatusForTicketsByHash: a failure is logged and storeTxns
\* goes on. In the blocks of this model a winner that did not vote is
\* revoked in the same block and MissedByBlock is empty: the batch is empty.
SetPoolStatusForTicketsByHashStep ==
    LET g == task["stk"]
    IN  /\ g.pc = "SetPoolStatusForTicketsByHash"
        /\ \E o \in Outcomes : Budget(o)
        /\ task' = [task EXCEPT !["stk"] =
                        [ReadStakeNode(g, {"MissedByBlock"}) EXCEPT
                            !.pc = "InsertAddressRows",
                            !.node = "free"]]
        /\ UNCHANGED <<db, ticketCache, trace>>
        /\ TaskFrame

\* an address row flag that ignores the branch of the block
ValidMainChainIgnoresBranch(isValid, isMainchain) == isValid

\* dba.ValidMainChain = isMainchain && isValid
ValidMainChain(isValid, isMainchain) == isMainchain /\ isValid

\* InsertAddressRows with the funding rows of the tree's outputs
InsertAddressRowsStep(tr) ==
    LET g == task[tr]
    IN  /\ g.pc = "InsertAddressRows"
        /\ \E o \in Outcomes :
            /\ Budget(o)
            /\ NoRows(o, {<<"f", v>> : v \in g.voutIds} \subseteq
                              DOMAIN db.addrs)
            /\ IF IsErr(o)
               THEN TaskFail(tr) /\ UNCHANGED <<db, trace>>
               ELSE /\ db' = InsertAddressRows(db, g.voutIds,
                                 ValidMainChain(args.isValid, args.isMainchain),
                                 cfg.upsert)
                    /\ trace' = trace \cup { <<"addrs", args.block, tr>> }
                    /\ task' = [task EXCEPT
                          ![tr].pc = IF cfg.updAddr /\
                                        Len(SpendVins(args.block, tr)) > 0
                                     THEN "SetSpendingForFundingOP"
                                     ELSE "done",
                          ![tr].it = 1]
        /\ UNCHANGED ticketCache
        /\ TaskFrame

\* SetSpendingForFundingOP for the next input that is not a coinbase input:
\* a failure is logged and the loop goes on
SetSpendingForFundingOPStep(tr) ==
    LET g == task[tr]
        v == SpendVins(args.block, tr)[g.it]
    IN  /\ g.pc = "SetSpendingForFundingOP"
        /\ \E o \in Outcomes :
            /\ Budget(o)
            /\ db' = IF IsErr(o) THEN db
                     ELSE SetSpendingForFundingOP(db, v,
                              args.isValid /\ args.isMainchain, cfg.upsert)
        /\ task' = [task EXCEPT
              ![tr].pc = IF g.it < Len(SpendVins(args.block, tr))
                         THEN "SetSpendingForFundingOP" ELSE "done",
              ![tr].it = g.it + 1]
        /\ UNCHANGED <<ticketCache, trace>>
        /\ TaskFrame

----------------------------------------------------------------------------
(* StoreBlock after the two goroutines were started *)

\* what every step of the caller leaves alone
CallFrame == UNCHANGED <<cfg, calls, pre, snap, ticketCache, phase, ab, tp, dfb, tg, upd, rw, ps>>

\* a step of StoreBlock that returns with error e
StoreReturn(e) ==
    Return(args, e, loc.numVins, loc.numVouts, NoHash, 0)

\* a step of StoreBlock that goes on to the end of StoreBlock with err = e
StoreTail(e) ==
    /\ pc' = "Tail"
    /\ loc' = [loc EXCEPT !.err = e]
    /\ UNCHANGED <<args, task, ret>>

\* a step of StoreBlock that goes on to position p
StoreGoto(p) ==
    /\ pc' = p
    /\ UNCHANGED <<args, task, loc, ret>>

\* txRes.numVins and txRes.numVouts of a storeTxns result
TaskCounts(g) ==
    [numVins |-> Cardinality(g.vinIds), numVouts |-> Cardinality(g.voutIds)]

\* a join that looks at the error of the stake tree only
JoinResultStakeOnly(errReg, errStk) ==
    IF errStk.err # "nil"
    THEN [err |-> "err", numVins |-> TaskCounts(errReg).numVins,
          numVouts |-> TaskCounts(errReg).numVouts]
    ELSE [err |-> "nil",
          numVins |-> TaskCounts(errStk).numVins + TaskCounts(errReg).numVins,
          numVouts |-> TaskCounts(errStk).numVouts +
                       TaskCounts(errReg).numVouts]

\* err, numVins and numVouts after the results errReg and errStk of the two
\* goroutines were received
JoinResult(errReg, errStk) ==
    IF errStk.err # "nil"
    THEN IF errReg.err = "nil"
         THEN [err |-> "err", numVins |-> TaskCounts(errReg).numVins,
               numVouts |-> TaskCounts(errReg).numVouts]
         ELSE [err |-> "err", numVins |-> 0, numVouts |-> 0]
    ELSE IF errReg.err # "nil"
         THEN [err |-> "err", numVins |-> TaskCounts(errStk).numVins,
               numVouts |-> TaskCounts(errStk).numVouts]
         ELSE [err |-> "nil",
               numVins |-> TaskCounts(errStk).numVins +
                           TaskCounts(errReg).numVins,
               numVouts |-> TaskCounts(errStk).numVouts +
                            TaskCounts(errReg).numVouts]

\* errReg := <-resChanReg; errStk := <-resChanStake and the error handling
\* that follows: with an error StoreBlock returns, without one it goes on
\* to the block row
StoreBlockJoin ==
    LET res == JoinResult(task["reg"], task["stk"])
    IN  /\ pc = "join"
        /\ task["reg"].pc = "done" /\ task["stk"].pc = "done"
        /\ fails' = fails
        /\ CallFrame
        /\ UNCHANGED <<db, bestBlock, bestBlockHash, lastBlock, trace>>
        /\ IF res.err # "nil"
           THEN Return(args, res.err, res.numVins, res.numVouts, NoHash, 0)
           ELSE /\ pc' = "InsertBlock"
                /\ loc' = [loc EXCEPT !.numVins = res.numVins,
                                      !.numVouts = res.numVouts]
                /\ UNCHANGED <<args, task, ret>>

\* InsertBlock, then pgb.lastBlock, pgb.bestBlock and pgb.bestBlockHash
InsertBlockStep ==
    /\ pc = "InsertBlock"
    /\ CallFrame
    /\ \E o \in Outcomes :
        /\ Budget(o)
        /\ NoRows(o, args.block \in DOMAIN db.blocks)
        /\ IF IsErr(o)
           THEN /\ StoreReturn(o)
                /\ UNCHANGED <<db, bestBlock, bestBlockHash, lastBlock, trace>>
           ELSE /\ db' = InsertBlock(db, args.block,
                             task["reg"].txIds \cup task["stk"].txIds,
                             args.isValid, args.isMainchain, cfg.upsert)
                /\ trace' = trace \cup { <<"block", args.block, "">> }
                /\ lastBlock' = lastBlock \cup {args.block}
                /\ bestBlock' = HeaderHeight(args.block)
                /\ bestBlockHash' = args.block
                /\ StoreGoto("InsertBlockPrevNext")

\* InsertBlockPrevNext; for a block without a parent StoreBlock is done
InsertBlockPrevNextStep ==
    /\ pc = "InsertBlockPrevNext"
    /\ CallFrame
    /\ UNCHANGED <<bestBlock, bestBlockHash, lastBlock, trace>>
    /\ \E o \in Outcomes :
        /\ Budget(o)
        /\ NoRows(o, args.block \in DOMAIN db.next)
        /\ IF IsFatal(o)
           THEN StoreReturn("err") /\ UNCHANGED db
           ELSE /\ db' = InsertBlockPrevNext(db, args.block)
                /\ IF PrevBlock(args.block) = ZeroHash
                   THEN StoreTail(ErrOf(o))
                   ELSE /\ pc' = "BlockStatus"
                        /\ loc' = [loc EXCEPT !.err = ErrOf(o)]
                        /\ UNCHANGED <<args, task, ret>>

\* a cascade that reaches the block before the previous block
LastBlockHashTwoBack == PrevBlock(PrevBlock(args.block))

\* lastBlockHash := msgBlock.Header.PrevBlock
LastBlockHash == PrevBlock(args.block)

\* lastIsValid := dbBlock.VoteBits&1 != 0
LastIsValid == VoteBitsApprove(args.block)

\* the position after the row id of the previous block is known
AfterLastBlockDbID ==
    IF ~LastIsValid THEN "UpdateLastBlockValid" ELSE "UpdateBlockNext"

\* blockStatus.IsMainchain != isMainchain: the previous block is on the
\* other branch (mutation: the branches are not compared)
OnOtherBranchNever(last, isMainchain) == FALSE
OnOtherBranch(last, isMainchain) ==
    db.blocks[last].is_mainchain # isMainchain

\* pgb.BlockStatus(lastBlockHash), the comparison of the previous block's
\* branch with isMainchain, and the lookup in pgb.lastBlock
BlockStatusStep ==
    LET last == PrevBlock(args.block)
    IN  /\ pc = "BlockStatus"
        /\ CallFrame
        /\ UNCHANGED <<db, bestBlock, bestBlockHash, lastBlock, trace>>
        /\ \E o \in Outcomes :
            /\ Budget(o)
            /\ IF IsErr(o) \/ last \notin DOMAIN db.blocks
               THEN StoreReturn(loc.err)
               ELSE IF OnOtherBranch(last, args.isMainchain)
               THEN StoreReturn(loc.err)
               ELSE IF last \in lastBlock
               THEN StoreGoto(AfterLastBlockDbID)
               ELSE StoreGoto("RetrieveBlockChainDbID")

\* RetrieveBlockChainDbID for a previous block that is not in pgb.lastBlock
RetrieveBlockChainDbIDStep ==
    LET last == PrevBlock(args.block)
    IN  /\ pc = "RetrieveBlockChainDbID"
        /\ CallFrame
        /\ UNCHANGED <<db, bestBlock, bestBlockHash, lastBlock, trace>>
        /\ \E o \in Outcomes :
            /\ Budget(o)
            /\ IF IsErr(o) \/ last \notin DOMAIN db.next
               THEN StoreReturn(ErrOf(o))
               ELSE StoreGoto(AfterLastBlockDbID)

\* UpdateLastBlockValid(pgb.db, lastBlockDbID, lastIsValid)
UpdateLastBlockValidStep ==
    /\ pc = "UpdateLastBlockValid"
    /\ CallFrame
    /\ UNCHANGED <<bestBlock, bestBlockHash, lastBlock, trace>>
    /\ \E o \in Outcomes :
        /\ Budget(o)
        /\ IF IsErr(o)
           THEN StoreReturn(ErrOf(o)) /\ UNCHANGED db
           ELSE /\ db' = UpdateLastBlockValid(db, LastBlockHash, LastIsValid)
                /\ StoreGoto("UpdateBlockNext")

\* UpdateBlockNext(pgb.db, lastBlockDbID, dbBlock.Hash)
UpdateBlockNextStep ==
    /\ pc = "UpdateBlockNext"
    /\ CallFrame
    /\ UNCHANGED <<bestBlock, bestBlockHash, lastBlock, trace>>
    /\ \E o \in Outcomes :
        /\ Budget(o)
        /\ IF IsErr(o)
           THEN StoreReturn(ErrOf(o)) /\ UNCHANGED db
           ELSE /\ db' = UpdateBlockNext(db, LastBlockHash, args.block)
                /\ IF ~LastIsValid
                   THEN StoreGoto("UpdateLastVins")
                   ELSE StoreTail("nil")

\* UpdateLastVins(pgb.db, lastBlockHash, lastIsValid, isMainchain)
UpdateLastVinsStep ==
    /\ pc = "UpdateLastVins"
    /\ CallFrame
    /\ UNCHANGED <<bestBlock, bestBlockHash, lastBlock, trace>>
    /\ \E o \in Outcomes :
        /\ Budget(o)
        /\ IF IsErr(o)
           THEN StoreReturn(ErrOf(o)) /\ UNCHANGED db
           ELSE /\ db' = UpdateLastVins(db, LastBlockHash, LastIsValid,
                             args.isMainchain)
                /\ StoreGoto("UpdateTransactionsValid")

\* UpdateTransactionsValid(pgb.db, lastBlockHash, lastIsValid)
UpdateTransactionsValidStep ==
    /\ pc = "UpdateTransactionsValid"
    /\ CallFrame
    /\ UNCHANGED <<bestBlock, bestBlockHash, lastBlock, trace>>
    /\ \E o \in Outcomes :
        /\ Budget(o)
        /\ IF IsErr(o)
           THEN StoreReturn(ErrOf(o)) /\ UNCHANGED db
           ELSE /\ db' = UpdateTransactionsValid(db, LastBlockHash,
                             LastIsValid)
                /\ StoreGoto("UpdateLastAddressesValid")

\* UpdateLastAddressesValid(pgb.db, lastBlockHash, lastIsValid); StoreBlock
\* returns after it
UpdateLastAddressesValidStep ==
    /\ pc = "UpdateLastAddressesValid"
    /\ CallFrame
    /\ UNCHANGED <<bestBlock, bestBlockHash, lastBlock, trace>>
    /\ \E o \in Outcomes :
        /\ Budget(o)
        /\ IF IsErr(o)
           THEN StoreReturn(ErrOf(o)) /\ UNCHANGED db
           ELSE /\ db' = UpdateLastAddressesValid(db, LastBlockHash,
                             LastIsValid)
                /\ StoreTail("nil")

\* the end of StoreBlock. Outside batch sync the address counter is reset
\* to the height of the block under its mutex and, with devPrefetch and no
\* reorganization under way, a goroutine is started that calls
\* UpdateDevBalance; StoreBlock returns err
StoreBlockTail ==
    /\ pc = "Tail"
    /\ ab.lock = "none"
    /\ ab' = IF cfg.inBatchSync THEN ab
             ELSE [ab EXCEPT !.totals =
                        [validHeight |-> HeaderHeight(args.block),
                         balance |-> EmptyFn]]
    /\ dfb' = IF ~cfg.inBatchSync /\ cfg.devPrefetch /\ ~cfg.inReorg
              THEN [dfb EXCEPT !.refresh = TRUE]
              ELSE dfb
    /\ fails' = fails
    /\ UNCHANGED <<db, bestBlock, bestBlockHash, lastBlock, ticketCache, cfg,
                   calls, pre, snap, trace, phase, tp, tg, upd, rw, ps>>
    /\ StoreReturn(loc.err)

----------------------------------------------------------------------------
(* TipToSideChain *)

\* a loop that stops one block below mainRoot
TipLoopCondPastRoot == loc.tipHash # PrevBlock(args.mainRoot)

\* for tipHash != mainRoot
TipLoopCond == loc.tipHash # args.mainRoot

\* what every step of the TipToSideChain loop body leaves alone
TipFrame ==
    /\ CallFrame
    /\ UNCHANGED <<bestBlock, bestBlockHash, lastBlock, args, task, ret>>

\* a step of the loop body was carried out for the block at the tip
TipTrace(step) == trace' = trace \cup { <<step, loc.tipHash, "">> }

\* tipHash := pgb.bestBlockHash and the counters
TipToSideChainStart(mainRoot) ==
    /\ pc = "idle"
    /\ MayCall("tip", mainRoot, FALSE)
    /\ mainRoot \in DOMAIN db.blocks
    /\ ~StoreFailed
    /\ calls' = calls + 1
    /\ pre' = [bestBlock |-> bestBlock, bestBlockHash |-> bestBlockHash,
               fails |-> fails]
    /\ snap' = IF cfg.script # << >> /\ 2 * calls = Len(cfg.script)
               THEN [on |-> TRUE, db |-> db, numVins |-> 0, numVouts |-> 0]
               ELSE NoSnap
    /\ trace' = {}
    /\ args' = [NoArgs EXCEPT !.op = "tip", !.mainRoot = mainRoot]
    /\ loc' = [NoLoc EXCEPT !.tipHash = bestBlockHash, !.tip0 = bestBlockHash]
    /\ pc' = "TipLoop"
    /\ UNCHANGED <<db, bestBlock, bestBlockHash, lastBlock, ticketCache, cfg,
                   task, ret, fails, phase, ab, tp, dfb, tg, upd, rw, ps>>

\* the loop condition fails: return tipHash, blocksMoved, nil
TipToSideChainReturn ==
    /\ pc = "TipLoop"
    /\ ~TipLoopCond
    /\ fails' = fails
    /\ CallFrame
    /\ Return(args, "nil", 0, 0, loc.tipHash, loc.blocksMoved)
    /\ UNCHANGED <<db, bestBlock, bestBlockHash, lastBlock, trace>>

\* 1. previousHash, err := SetMainchainByBlockHash(pgb.db, tipHash, false);
\* blocksMoved++
TipSetMainchainByBlockHash ==
    /\ pc = "TipLoop"
    /\ TipLoopCond
    /\ loc.blocksMoved < MaxMoved
    /\ TipFrame
    /\ TipTrace("block")
    /\ \E o \in Outcomes :
        /\ Budget(o)
        /\ IsErr(o) => loc.tipHash \in DOMAIN db.blocks
        /\ db' = IF IsErr(o) THEN db
                 ELSE SetMainchainByBlockHash(db, loc.tipHash, FALSE)
        /\ loc' = [loc EXCEPT
              !.previousHash = IF IsErr(o) THEN NoHash
                               ELSE SetMainchainByBlockHashResult(db,
                                        loc.tipHash),
              !.blocksMoved = @ + 1]
    /\ pc' = "UpdateTransactionsMainchain"

\* 2. UpdateTransactionsMainchain(pgb.db, tipHash, false)
TipUpdateTransactionsMainchain ==
    /\ pc = "UpdateTransactionsMainchain"
    /\ TipFrame
    /\ TipTrace("txns")
    /\ \E o \in Outcomes :
        /\ Budget(o)
        /\ db' = IF IsErr(o) THEN db
                 ELSE UpdateTransactionsMainchain(db, loc.tipHash, FALSE)
    /\ pc' = "SetVinsMainchainByBlock"
    /\ UNCHANGED loc

\* areMainchain[it]: the flag setVinsMainchainForMany hands to
\* setVinsMainchainOneTxn for the inputs of transaction it, here the
\* transaction of input v (mutation: false, whatever was read back)
areMainchainFalse(d, v) == FALSE
areMainchain(d, v) == RetrieveTxMainchain(d, v)

\* a setVinsMainchainForMany that updates no input
SetVinsMainchainForManySkips(d, vs, failed) == d

\* setVinsMainchainForMany / setVinsMainchainOneTxn: every input in vs gets
\* the is_mainchain flag of its transaction; an input whose update fails
\* (those in failed) is skipped
SetVinsMainchainForMany(d, vs, failed) ==
    [d EXCEPT !.vins =
        [v \in DOMAIN d.vins |->
            IF v \in vs \ failed
            THEN [d.vins[v] EXCEPT !.is_mainchain = areMainchain(d, v)]
            ELSE d.vins[v]]]

\* 3. pgb.SetVinsMainchainByBlock(tipHash): RetrieveTxnsVinsVoutsByBlock,
\* then setVinsMainchainForMany
TipSetVinsMainchainByBlock ==
    /\ pc = "SetVinsMainchainByBlock"
    /\ TipFrame
    /\ TipTrace("vins")
    /\ \/ \E o \in Outcomes :
            /\ Budget(o)
            /\ IF IsErr(o)
               THEN /\ db' = db
                    /\ loc' = [loc EXCEPT !.vinDbIDsBlk = {},
                                          !.voutDbIDsBlk = {}]
               ELSE /\ db' = SetVinsMainchainForMany(db,
                                 RetrieveVinsByBlock(db, loc.tipHash), {})
                    /\ loc' = [loc EXCEPT
                          !.vinDbIDsBlk = RetrieveVinsByBlock(db, loc.tipHash),
                          !.voutDbIDsBlk = RetrieveVoutsByBlock(db, loc.tipHash)]
       \/ \E v \in RetrieveVinsByBlock(db, loc.tipHash) :
            /\ Budget("err")
            /\ db' = SetVinsMainchainForMany(db,
                         RetrieveVinsByBlock(db, loc.tipHash), {v})
            /\ loc' = [loc EXCEPT
                  !.vinDbIDsBlk = RetrieveVinsByBlock(db, loc.tipHash),
                  !.voutDbIDsBlk = RetrieveVoutsByBlock(db, loc.tipHash)]
    /\ pc' = "UpdateAddressesMainchainByIDs"

\* 4. UpdateAddressesMainchainByIDs(pgb.db, vinDbIDsBlk, voutDbIDsBlk, false)
TipUpdateAddressesMainchainByIDs ==
    /\ pc = "UpdateAddressesMainchainByIDs"
    /\ TipFrame
    /\ TipTrace("addrs")
    /\ \E o \in Outcomes :
        /\ Budget(o)
        /\ db' = IF IsErr(o) THEN db
                 ELSE UpdateAddressesMainchainByIDs(db, loc.vinDbIDsBlk,
                          loc.voutDbIDsBlk, FALSE)
    /\ pc' = "UpdateVotesMainchain"
    /\ UNCHANGED loc

\* 5. UpdateVotesMainchain(pgb.db, tipHash, false)
TipUpdateVotesMainchain ==
    /\ pc = "UpdateVotesMainchain"
    /\ TipFrame
    /\ TipTrace("votes")
    /\ \E o \in Outcomes :
        /\ Budget(o)
        /\ db' = IF IsErr(o) THEN db
                 ELSE UpdateVotesMainchain(db, loc.tipHash, FALSE)
    /\ pc' = "UpdateTicketsMainchain"
    /\ UNCHANGED loc

\* 6. UpdateTicketsMainchain(pgb.db, tipHash, false)
TipUpdateTicketsMainchain ==
    /\ pc = "UpdateTicketsMainchain"
    /\ TipFrame
    /\ TipTrace("tickets")
    /\ \E o \in Outcomes :
        /\ Budget(o)
        /\ db' = IF IsErr(o) THEN db
                 ELSE UpdateTicketsMainchain(db, loc.tipHash, FALSE)
    /\ pc' = "TipAdvance"
    /\ UNCHANGED loc

\* tipHash = previousHash; pgb.bestBlock, err = pgb.BlockHeight(tipHash);
\* pgb.bestBlockHash = tipHash
TipAdvance ==
    /\ pc = "TipAdvance"
    /\ CallFrame
    /\ UNCHANGED <<db, lastBlock, args, task, ret, trace>>
    /\ \E o \in Outcomes :
        /\ Budget(o)
        /\ IsErr(o) => loc.previousHash \in DOMAIN db.blocks
        /\ bestBlock' = IF IsErr(o) THEN 0
                        ELSE RetrieveBlockHeight(db, loc.previousHash)
    /\ bestBlockHash' = loc.previousHash
    /\ loc' = [loc EXCEPT !.tipHash = loc.previousHash]
    /\ pc' = "TipLoop"

----------------------------------------------------------------------------
(* addressBalance: the address balance cache pgb.addressCounts *)

\* every variable of the block store but the failure count
CacheFrame ==
    UNCHANGED <<db, bestBlockHash, lastBlock, ticketCache, cfg, pc, args,
                task, loc, ret, calls, pre, snap, trace, phase>>

\* a goroutine holds the mutex of pgb.addressCounts (mutation: the mutex
\* never keeps a goroutine out)
TotalsNeverLocked == FALSE
TotalsLocked == ab.lock # "none"

\* totals.validHeight == bestBlock (mutation: the heights are not compared)
ValidHeightAny(bb) == TRUE
ValidHeight(bb) == ab.totals.validHeight = bb

\* totals.balance[address] = balanceInfo
SetBalance(balance, address, balanceInfo) ==
    [a \in (DOMAIN balance) \cup {address} |->
        IF a = address THEN balanceInfo ELSE balance[a]]

\* bb, err := pgb.HeightDB(): the best block height is read from the
\* blocks table before the mutex is taken
AddressBalanceHeightDB(c, address) ==
    /\ ab.call[c].pc = "idle"
    /\ \E o \in Outcomes :
        /\ Budget(o)
        /\ ab' = [ab EXCEPT !.call[c] =
                    IF IsErr(o)
                    THEN [@ EXCEPT !.pc = "done", !.address = address,
                                   !.err = "err"]
                    ELSE [@ EXCEPT !.pc = "Lock", !.op = "addressBalance",
                                   !.address = address,
                                   !.bestBlock = ab.height,
                                   !.epoch = ab.epoch,
                                   !.overlap =
                                       \E d \in Callers \ {c} :
                                           ab.call[d].pc \in {"Lock", "Query"}]]
    /\ CacheFrame
    /\ UNCHANGED <<bestBlock, tp, dfb, tg, upd, rw, ps>>

\* totals.Lock(), then the cache is consulted: a map of another height is
\* replaced by an empty one of this height; a hit returns the cached
\* balance and releases the mutex
AddressBalanceLock(c) ==
    /\ ab.call[c].pc = "Lock"
    /\ ~TotalsLocked
    /\ LET cl == ab.call[c]
           valid == ValidHeight(cl.bestBlock)
           fresh == valid /\ cl.address \in DOMAIN ab.totals.balance
       IN  ab' = [ab EXCEPT
                    !.totals = IF valid THEN @
                               ELSE [validHeight |-> cl.bestBlock,
                                     balance |-> EmptyFn],
                    !.lock = IF fresh THEN "none" ELSE c,
                    !.call[c] =
                        IF fresh
                        THEN [cl EXCEPT !.pc = "done", !.fresh = TRUE,
                                        !.balanceInfo =
                                            ab.totals.balance[cl.address]]
                        ELSE [cl EXCEPT !.pc = "Query", !.stale = ~valid]]
    /\ fails' = fails
    /\ CacheFrame
    /\ UNCHANGED <<bestBlock, tp, dfb, tg, upd, rw, ps>>

\* RetrieveAddressSpentUnspent under the mutex: the balance the tables hold
\* now is cached and returned; a failed query caches nothing. The deferred
\* Unlock releases the mutex either way.
AddressBalanceQuery(c) ==
    /\ ab.call[c].pc = "Query"
    /\ LET cl == ab.call[c] IN
       \E o \in Outcomes :
        /\ Budget(o)
        /\ ab' = [ab EXCEPT
                    !.queries[cl.address] = @ + 1,
                    !.lock = "none",
                    !.totals.balance =
                        IF IsErr(o) THEN @
                        ELSE SetBalance(@, cl.address, ab.height),
                    !.call[c] =
                        IF IsErr(o)
                        THEN [cl EXCEPT !.pc = "done", !.err = "err"]
                        ELSE [cl EXCEPT !.pc = "done",
                                        !.balanceInfo = ab.height]]
    /\ CacheFrame
    /\ UNCHANGED <<bestBlock, tp, dfb, tg, upd, rw, ps>>

\* StoreBlock stored the next main chain block: the best block height of
\* the blocks table grows; outside batch sync the reset of the address
\* counter is still to come
AddressBlockStored(inBatchSync) ==
    /\ ab.height < MaxHeight
    /\ ab.reset = 0
    /\ ab' = [ab EXCEPT !.height = @ + 1, !.epoch = @ + 1,
                        !.reset = IF inBatchSync THEN 0 ELSE ab.height + 1]
    /\ fails' = fails
    /\ CacheFrame
    /\ UNCHANGED <<bestBlock, tp, dfb, tg, upd, rw, ps>>

\* the end of StoreBlock outside batch sync: under the mutex validHeight
\* becomes the height of the stored block and the map is emptied
AddressCountsReset ==
    /\ ab.reset # 0
    /\ ~TotalsLocked
    /\ ab' = [ab EXCEPT !.totals = [validHeight |-> ab.reset,
                                    balance |-> EmptyFn],
                        !.reset = 0, !.epoch = @ + 1]
    /\ fails' = fails
    /\ CacheFrame
    /\ UNCHANGED <<bestBlock, tp, dfb, tg, upd, rw, ps>>

\* AddressHistory begins like addressBalance: bb, err := pgb.HeightDB()
AddressHistoryHeightDB(c, address) ==
    /\ ab.call[c].pc = "idle"
    /\ \E o \in Outcomes :
        /\ Budget(o)
        /\ ab' = [ab EXCEPT !.call[c] =
                    IF IsErr(o)
                    THEN [@ EXCEPT !.pc = "done", !.address = address,
                                   !.err = "err"]
                    ELSE [@ EXCEPT !.pc = "HistoryLock",
                                   !.op = "AddressHistory",
                                   !.address = address,
                                   !.bestBlock = ab.height,
                                   !.epoch = ab.epoch]]
    /\ CacheFrame
    /\ UNCHANGED <<bestBlock, tp, dfb, tg, upd, rw, ps>>

\* totals.Lock(), the same look at the cache, totals.Unlock(): the mutex
\* is not held while the rows are fetched
AddressHistoryLock(c) ==
    /\ ab.call[c].pc = "HistoryLock"
    /\ ~TotalsLocked
    /\ LET cl == ab.call[c]
           valid == ValidHeight(cl.bestBlock)
           fresh == valid /\ cl.address \in DOMAIN ab.totals.balance
       IN  ab' = [ab EXCEPT
                    !.totals = IF valid THEN @
                               ELSE [validHeight |-> cl.bestBlock,
                                     balance |-> EmptyFn],
                    !.call[c] =
                        [cl EXCEPT !.pc = "Rows", !.fresh = fresh,
                                   !.stale = ~valid,
                                   !.balanceInfo =
                                       IF fresh
                                       THEN ab.totals.balance[cl.address]
                                       ELSE NoBalance]]
    /\ fails' = fails
    /\ CacheFrame
    /\ UNCHANGED <<bestBlock, tp, dfb, tg, upd, rw, ps>>

\* pgb.AddressTransactions: with a cached balance or no rows the call
\* returns; rows that are all the address has give the balance; otherwise
\* the balance is asked of the tables
AddressHistoryTransactions(c, rows) ==
    /\ ab.call[c].pc = "Rows"
    /\ LET cl == ab.call[c] IN
       \E o \in Outcomes :
        /\ Budget(o)
        /\ ab' = [ab EXCEPT !.call[c] =
                    IF IsErr(o) THEN [cl EXCEPT !.pc = "done", !.err = "err",
                                                !.balanceInfo = NoBalance]
                    ELSE IF cl.fresh \/ rows = "none"
                    THEN [cl EXCEPT !.pc = "done"]
                    ELSE IF rows = "all"
                    THEN [cl EXCEPT !.pc = "Cache", !.balanceInfo = ab.height]
                    ELSE [cl EXCEPT !.pc = "HistoryQuery"]]
    /\ CacheFrame
    /\ UNCHANGED <<bestBlock, tp, dfb, tg, upd, rw, ps>>

\* RetrieveAddressSpentUnspent, without the mutex
AddressHistoryQuery(c) ==
    /\ ab.call[c].pc = "HistoryQuery"
    /\ LET cl == ab.call[c] IN
       \E o \in Outcomes :
        /\ Budget(o)
        /\ ab' = [ab EXCEPT
                    !.queries[cl.address] = @ + 1,
                    !.call[c] =
                        IF IsErr(o)
                        THEN [cl EXCEPT !.pc = "done", !.err = "err"]
                        ELSE [cl EXCEPT !.pc = "Cache",
                                        !.balanceInfo = ab.height]]
    /\ CacheFrame
    /\ UNCHANGED <<bestBlock, tp, dfb, tg, upd, rw, ps>>

\* totals.Lock(); totals.balance[address] = balanceInfo; totals.Unlock()
AddressHistoryCache(c) ==
    /\ ab.call[c].pc = "Cache"
    /\ ~TotalsLocked
    /\ ab' = [ab EXCEPT
                !.totals.balance = SetBalance(@, ab.call[c].address,
                                              ab.call[c].balanceInfo),
                !.call[c].pc = "done"]
    /\ fails' = fails
    /\ CacheFrame
    /\ UNCHANGED <<bestBlock, tp, dfb, tg, upd, rw, ps>>

NextAddressBalance ==
    \/ \E c \in Callers, address \in Addrs : AddressBalanceHeightDB(c, address)
    \/ \E c \in Callers : AddressBalanceLock(c)
    \/ \E c \in Callers : AddressBalanceQuery(c)
    \/ \E c \in Callers, address \in Addrs : AddressHistoryHeightDB(c, address)
    \/ \E c \in Callers : AddressHistoryLock(c)
    \/ \E c \in Callers, rows \in {"none", "some", "all"} :
          AddressHistoryTransactions(c, rows)
    \/ \E c \in Callers : AddressHistoryQuery(c)
    \/ \E c \in Callers : AddressHistoryCache(c)
    \/ \E inBatchSync \in BOOLEAN : AddressBlockStored(inBatchSync)
    \/ AddressCountsReset

SpecAddressBalance == InitCache /\ [][NextAddressBalance]_vars

----------------------------------------------------------------------------
(* TicketPoolVisualization: the ticket pool charts cache *)

\* every variable of the block store but the failure count and the best
\* block height
ChartsFrame ==
    UNCHANGED <<db, bestBlockHash, lastBlock, ticketCache, cfg, pc, args,
                task, loc, ret, calls, pre, snap, trace, phase, ab, dfb,
                tg, upd, rw, ps>>

\* pgb.Height(): the last stored height
Height == bestBlock

\* TicketPoolData(interval, height): the cached charts of the interval,
\* whether there are any, and whether they are of another height
TicketPoolData(interval, height) ==
    [charts |-> tp.cache[interval].charts,
     actualHeight |-> tp.cache[interval].Height,
     intervalFound |-> tp.cache[interval].found,
     isStale |-> tp.cache[interval].Height # height]

\* UpdateTicketPoolData(interval, charts, height)
UpdateTicketPoolData(cache, interval, charts, height) ==
    [cache EXCEPT ![interval] =
        [found |-> TRUE, Height |-> height, charts |-> charts]]

\* the blocking Lock of the updater mutex of the interval has to wait: a
\* goroutine holds the mutex (mutation: Lock never waits)
PermissionNeverHeld(interval) == FALSE
PermissionHeld(interval) == tp.permission[interval] # "none"

\* pgb.tpUpdatePermission[interval].TryLock() returns false (mutation: it
\* never does)
TryLockNeverFails(interval) == FALSE
TryLockFails(interval) == tp.permission[interval] # "none"

\* where a caller whose TryLock failed goes on: with cached charts it
\* returns them, without it waits for the mutex (mutation: it always waits)
AfterTryLockFailedWaits(intervalFound) == "Lock"
AfterTryLockFailed(intervalFound) == IF intervalFound THEN "done" ELSE "Lock"

\* heightSeen := pgb.Height() and the first look at the cache: charts of
\* this height are returned at once
TicketPoolCached(c, interval) ==
    /\ tp.call[c].pc = "idle"
    /\ LET d == TicketPoolData(interval, Height)
       IN  tp' = [tp EXCEPT !.call[c] =
                    [@ EXCEPT !.pc = IF d.intervalFound /\ ~d.isStale
                                     THEN "done" ELSE "TryLock",
                              !.interval = interval,
                              !.intervalFound = d.intervalFound,
                              !.stale = d.isStale,
                              !.height = d.actualHeight,
                              !.charts = d.charts]]
    /\ fails' = fails
    /\ bestBlock' = bestBlock
    /\ ChartsFrame

\* the attempt to become the updater. On success ticketPoolVisualization
\* begins with height = pgb.Height(); on failure a caller with stale charts
\* returns them and a caller without charts goes to wait for the mutex
TicketPoolTryLock(c) ==
    /\ tp.call[c].pc = "TryLock"
    /\ LET cl == tp.call[c]
       IN  IF TryLockFails(cl.interval)
           THEN tp' = [tp EXCEPT !.call[c] =
                        [cl EXCEPT !.pc = AfterTryLockFailed(cl.intervalFound),
                                   !.contended = TRUE]]
           ELSE tp' = [tp EXCEPT !.permission[cl.interval] = c,
                                 !.call[c] = [cl EXCEPT !.pc = "Visualize",
                                                        !.updater = TRUE,
                                                        !.height = Height]]
    /\ fails' = fails
    /\ bestBlock' = bestBlock
    /\ ChartsFrame

\* the end of a round of ticketPoolVisualization: heightEnd == height
\* breaks the loop, another heightEnd starts the next round (mutation: the
\* loop always ends after one round)
RoundNeverRepeats(heightEnd, height) == FALSE
RoundRepeats(heightEnd, height) == heightEnd # height

\* one round of the loop of ticketPoolVisualization: the queries on the
\* ticket tables, then heightEnd := pgb.Height(). A failed query returns
\* the error and the deferred Unlock releases the updater mutex; a changed
\* height starts another round. repeated tells that this call has begun
\* another round.
TicketPoolQueries(c) ==
    /\ tp.call[c].pc = "Visualize"
    /\ LET cl == tp.call[c] IN
       \E o \in Outcomes :
        /\ Budget(o)
        /\ IF IsErr(o)
           THEN tp' = [tp EXCEPT !.permission[cl.interval] = "none",
                                 !.call[c] = [cl EXCEPT !.pc = "done",
                                                        !.err = "err",
                                                        !.height = 0,
                                                        !.charts = 0]]
           ELSE tp' = [tp EXCEPT !.call[c] =
                        [cl EXCEPT !.pc = IF RoundRepeats(Height, cl.height)
                                          THEN "Visualize" ELSE "Update",
                                   !.height = IF RoundRepeats(Height, cl.height)
                                              THEN Height ELSE cl.height,
                                   !.repeated =
                                        @ \/ RoundRepeats(Height, cl.height),
                                   !.charts = tp.version]]
    /\ bestBlock' = bestBlock
    /\ ChartsFrame

\* UpdateTicketPoolData(interval, barcharts, donutCharts, height)
TicketPoolUpdate(c) ==
    /\ tp.call[c].pc = "Update"
    /\ LET cl == tp.call[c]
       IN  tp' = [tp EXCEPT !.cache = UpdateTicketPoolData(@, cl.interval,
                                                          cl.charts, cl.height),
                            !.call[c].pc = "Unlock"]
    /\ fails' = fails
    /\ bestBlock' = bestBlock
    /\ ChartsFrame

\* the updater returns: the deferred Unlock of the updater mutex
TicketPoolUnlock(c) ==
    /\ tp.call[c].pc = "Unlock"
    /\ tp' = [tp EXCEPT !.permission[tp.call[c].interval] = "none",
                        !.call[c].pc = "done"]
    /\ fails' = fails
    /\ bestBlock' = bestBlock
    /\ ChartsFrame

\* a caller without charts gets the updater mutex by the blocking Lock
TicketPoolLock(c) ==
    /\ tp.call[c].pc = "Lock"
    /\ ~PermissionHeld(tp.call[c].interval)
    /\ tp' = [tp EXCEPT !.permission[tp.call[c].interval] = c,
                        !.call[c].pc = "Reread",
                        !.call[c].waited = TRUE]
    /\ fails' = fails
    /\ bestBlock' = bestBlock
    /\ ChartsFrame

\* it looks at the cache again, returns the charts or, when there are
\* none, an error, and the deferred Unlock releases the mutex
TicketPoolReread(c) ==
    /\ tp.call[c].pc = "Reread"
    /\ LET cl == tp.call[c]
           d == TicketPoolData(cl.interval, Height)
       IN  tp' = [tp EXCEPT !.permission[cl.interval] = "none",
                            !.call[c] =
                                [cl EXCEPT !.pc = "done",
                                                        !.intervalFound = d.intervalFound,
                                           !.stale = d.isStale,
                                           !.height = IF d.intervalFound
                                                      THEN d.actualHeight
                                                      ELSE 0,
                                           !.charts = IF d.intervalFound
                                                      THEN d.charts ELSE 0,
                                           !.err = IF d.intervalFound
                                                   THEN "nil"
                                                   ELSE "no charts data"]]
    /\ fails' = fails
    /\ bestBlock' = bestBlock
    /\ ChartsFrame

\* the caller has its result; the goroutine serves the next request
TicketPoolReturn(c) ==
    /\ tp.call[c].pc = "done"
    /\ tp' = [tp EXCEPT !.call[c] = TicketPoolIdle]
    /\ fails' = fails
    /\ bestBlock' = bestBlock
    /\ ChartsFrame

\* StoreBlock writes the rows of the next block to the ticket tables
TicketTablesChange ==
    /\ tp.version < MaxHeight
    /\ tp.version = bestBlock
    /\ tp' = [tp EXCEPT !.version = @ + 1]
    /\ fails' = fails
    /\ bestBlock' = bestBlock
    /\ ChartsFrame

\* and then sets pgb.bestBlock to the height of that block
BestBlockChange ==
    /\ bestBlock < tp.version
    /\ bestBlock' = tp.version
    /\ fails' = fails
    /\ tp' = tp
    /\ ChartsFrame

NextTicketPool ==
    \/ \E c \in Callers, interval \in Intervals : TicketPoolCached(c, interval)
    \/ \E c \in Callers : TicketPoolTryLock(c)
    \/ \E c \in Callers : TicketPoolQueries(c)
    \/ \E c \in Callers : TicketPoolUpdate(c)
    \/ \E c \in Callers : TicketPoolUnlock(c)
    \/ \E c \in Callers : TicketPoolLock(c)
    \/ \E c \in Callers : TicketPoolReread(c)
    \/ \E c \in Callers : TicketPoolReturn(c)
    \/ TicketTablesChange
    \/ BestBlockChange

SpecTicketPool == InitCache /\ [][NextTicketPool]_vars

----------------------------------------------------------------------------
(* UpdateDevBalance: the cached balance of the project fund *)

\* every variable but the failure count and pgb.DevFundBalance
DevFrame ==
    UNCHANGED <<db, bestBlock, bestBlockHash, lastBlock, ticketCache, cfg, pc,
                args, task, loc, ret, calls, pre, snap, trace, phase, ab, tp,
                tg, upd, rw, ps>>

\* retrieveDevBalance: the balance of the project address stamped with the
\* height and hash of the best block of the blocks table
retrieveDevBalance ==
    [AddressBalance |-> dfb.best, Height |-> HeaderHeight(dfb.best),
     Hash |-> dfb.best]

\* the cached balance is stale: it is of another block hash, or there is
\* none (mutation: the blocks are compared by height)
StaleByHeight(balance) ==
    balance.Height # dfb.Height \/ dfb.AddressBalance = "nil"
Stale(balance) ==
    balance.Hash # dfb.Hash \/ dfb.AddressBalance = "nil"

\* okToUpdate := pgb.DevFundBalance.updating.TryLock()
UpdateDevBalanceTryLock(c) ==
    /\ dfb.call[c].pc \in {"idle", "TryLock"}
    /\ LET ok == dfb.updating = "none"
       IN  dfb' = [dfb EXCEPT !.updating = IF ok THEN c ELSE @,
                              !.call[c] = [@ EXCEPT
                                  !.pc = "Lock",
                                  !.okToUpdate = ok,
                                  !.holder = dfb.updating,
                                  !.op = IF dfb.call[c].pc = "idle"
                                         THEN "UpdateDevBalance" ELSE @]]
    /\ fails' = fails
    /\ DevFrame

\* pgb.DevFundBalance.Lock(); a caller that did not get the TryLock returns
\* false, nil and releases the mutex
UpdateDevBalanceLock(c) ==
    /\ dfb.call[c].pc = "Lock"
    /\ dfb.lock = "none"
    /\ dfb' = IF dfb.call[c].okToUpdate
              THEN [dfb EXCEPT !.lock = c, !.call[c].pc = "update"]
              ELSE [dfb EXCEPT !.call[c].pc = "done"]
    /\ fails' = fails
    /\ DevFrame

\* updateDevBalance under both mutexes: a failed query returns false and
\* the error; a stale cache gets the new balance, height and hash and true
\* is returned; otherwise false. The deferred Unlocks release both mutexes.
updateDevBalance(c) ==
    /\ dfb.call[c].pc = "update"
    /\ \E o \in Outcomes :
        /\ Budget(o)
        /\ LET balance == retrieveDevBalance
               replace == ~IsErr(o) /\ Stale(balance)
           IN  dfb' = [dfb EXCEPT
                        !.AddressBalance = IF replace
                                           THEN balance.AddressBalance ELSE @,
                        !.Height = IF replace THEN balance.Height ELSE @,
                        !.Hash = IF replace THEN balance.Hash ELSE @,
                        !.updating = "none",
                        !.lock = "none",
                        !.call = [d \in Callers |->
                            IF d = c
                            THEN [dfb.call[c] EXCEPT
                                    !.pc = "done",
                                    !.updated = replace,
                                    !.err = IF IsErr(o) THEN "err" ELSE "nil",
                                    !.prev = [Hash |-> dfb.Hash,
                                              Height |-> dfb.Height]]
                            ELSE IF dfb.call[d].holder = c
                            THEN [dfb.call[d] EXCEPT !.holder = "finished"]
                            ELSE dfb.call[d]]]
    /\ DevFrame

\* the caller has its result; the goroutine serves the next request
UpdateDevBalanceReturn(c) ==
    /\ dfb.call[c].pc = "done"
    /\ dfb.call[c].op = "UpdateDevBalance"
    /\ dfb' = [dfb EXCEPT !.call[c] = UpdateDevBalanceIdle]
    /\ fails' = fails
    /\ DevFrame

\* DevBalance begins: outside a reorganization HashDB reads the best block
\* hash of the blocks table, and a cache of another hash or without a
\* balance makes it call UpdateDevBalance; a failed HashDB returns nil and
\* the error
DevBalanceHashDB(c) ==
    /\ dfb.call[c].pc = "idle"
    /\ dfb.lock = "none"
    /\ \E o \in Outcomes :
        /\ Budget(o)
        /\ LET stale == dfb.Hash # dfb.best \/ dfb.AddressBalance = "nil"
               to == IF cfg.inReorg THEN "Balance"
                     ELSE IF IsErr(o) THEN "returned"
                     ELSE IF stale THEN "TryLock" ELSE "Balance"
           IN  dfb' = [dfb EXCEPT !.call[c] = [@ EXCEPT
                        !.pc = to, !.op = "DevBalance",
                        !.err = IF to = "returned" THEN "err" ELSE "nil"]]
    /\ DevFrame

\* UpdateDevBalance has returned to DevBalance: its error is returned with a
\* nil balance
DevBalanceUpdated(c) ==
    /\ dfb.call[c].pc = "done"
    /\ dfb.call[c].op = "DevBalance"
    /\ dfb' = [dfb EXCEPT !.call[c].pc =
                  IF dfb.call[c].err # "nil" THEN "returned" ELSE "Balance"]
    /\ fails' = fails
    /\ DevFrame

\* bal := pgb.DevFundBalance.Balance(), read under the read lock: a nil
\* balance is the error "failed to update dev balance"
DevBalanceBalance(c) ==
    /\ dfb.call[c].pc = "Balance"
    /\ dfb.lock = "none"
    /\ dfb' = [dfb EXCEPT !.call[c] = [@ EXCEPT
                  !.pc = "returned",
                  !.bal = dfb.AddressBalance,
                  !.err = IF dfb.AddressBalance = "nil"
                          THEN "failed to update dev balance" ELSE "nil"]]
    /\ fails' = fails
    /\ DevFrame

\* DevBalance has returned; the goroutine serves the next request
DevBalanceReturn(c) ==
    /\ dfb.call[c].pc = "returned"
    /\ dfb' = [dfb EXCEPT !.call[c] = UpdateDevBalanceIdle]
    /\ fails' = fails
    /\ DevFrame

\* the blocks table gets another best block: the next block of the chain
\* or, after a reorganization, a block of the other branch
BestBlockHashChange(h) ==
    /\ h # dfb.best
    /\ dfb' = [dfb EXCEPT !.best = h]
    /\ fails' = fails
    /\ DevFrame

NextDevBalance ==
    \/ \E c \in Callers : UpdateDevBalanceTryLock(c)
    \/ \E c \in Callers : UpdateDevBalanceLock(c)
    \/ \E c \in Callers : updateDevBalance(c)
    \/ \E c \in Callers : UpdateDevBalanceReturn(c)
    \/ \E c \in Callers : DevBalanceHashDB(c)
    \/ \E c \in Callers : DevBalanceUpdated(c)
    \/ \E c \in Callers : DevBalanceBalance(c)
    \/ \E c \in Callers : DevBalanceReturn(c)
    \/ \E h \in Blocks : BestBlockHashChange(h)

SpecDevBalance == InitCache /\ [][NextDevBalance]_vars

----------------------------------------------------------------------------
(* TicketTxnIDGetter *)

\* every variable but tg
GetterFrame ==
    UNCHANGED <<db, bestBlock, bestBlockHash, lastBlock, ticketCache, cfg, pc,
                args, task, loc, ret, calls, fails, pre, snap, trace, phase, ab,
                tp, dfb, upd, rw, ps>>

\* what RetrieveTicketIDByHash may return: a row id, sql.ErrNoRows or
\* another error
QueryResults ==
    {[id |-> i, err |-> "nil"] : i \in TicketDbIDs}
        \cup {[id |-> 0, err |-> "norows"], [id |-> 0, err |-> "err"]}

\* m with the pairs of n added or replaced
SetAll(m, n) ==
    [k \in (DOMAIN m) \cup (DOMAIN n) |-> IF k \in DOMAIN n THEN n[k] ELSE m[k]]

\* delete(t.idCache, txid)
Delete(m, txid) == [k \in (DOMAIN m) \ {txid} |-> m[k]]

\* TxnDbID(txid, expire) on the getter t, query being what
\* RetrieveTicketIDByHash returns: the result and the idCache after the
\* call. A nil getter panics. (mutation: a hit always removes the entry)
TxnDbIDExpires(t, txid, expire, query) ==
    IF t.isNil THEN [id |-> 0, err |-> "panic", idCache |-> t.idCache]
    ELSE IF txid \in DOMAIN t.idCache
    THEN [id |-> t.idCache[txid], err |-> "nil",
          idCache |-> Delete(t.idCache, txid)]
    ELSE [id |-> query.id, err |-> query.err, idCache |-> t.idCache]
TxnDbID(t, txid, expire, query) ==
    IF t.isNil THEN [id |-> 0, err |-> "panic", idCache |-> t.idCache]
    ELSE IF txid \in DOMAIN t.idCache
    THEN [id |-> t.idCache[txid], err |-> "nil",
          idCache |-> IF expire THEN Delete(t.idCache, txid) ELSE t.idCache]
    ELSE [id |-> query.id, err |-> query.err, idCache |-> t.idCache]

\* the getter is a nil pointer, like the one storeTxns hands to InsertVotes
\* when updateTicketsSpendingInfo is false
GetterNil ==
    /\ tg = NewTicketTxnIDGetter
    /\ tg' = [tg EXCEPT !.isNil = TRUE]
    /\ GetterFrame

\* t.Set(txid, txDbID): nothing on a nil getter
GetterSet(txid, txDbID) ==
    /\ tg.n < MaxOps
    /\ tg' = [tg EXCEPT
                !.idCache = IF tg.isNil THEN @
                            ELSE SetAll(@, [k \in {txid} |-> txDbID]),
                !.set = IF tg.isNil THEN @
                        ELSE SetAll(@, [k \in {txid} |-> txDbID]),
                !.n = @ + 1,
                !.last = [NoOp EXCEPT !.op = "Set", !.txid = txid]]
    /\ GetterFrame

\* t.SetN(txid, txDbID), the pairs given as a map: nothing on a nil getter
GetterSetN(pairs) ==
    /\ tg.n < MaxOps
    /\ tg' = [tg EXCEPT
                !.idCache = IF tg.isNil THEN @ ELSE SetAll(@, pairs),
                !.set = IF tg.isNil THEN @ ELSE SetAll(@, pairs),
                !.n = @ + 1,
                !.last = [NoOp EXCEPT !.op = "SetN"]]
    /\ GetterFrame

\* t.TxnDbID(txid, expire)
GetterTxnDbID(txid, expire, query) ==
    /\ tg.n < MaxOps
    /\ LET r == TxnDbID(tg, txid, expire, query)
       IN  tg' = [tg EXCEPT
                    !.idCache = r.idCache,
                    !.n = @ + 1,
                    !.last = [op |-> "TxnDbID", txid |-> txid,
                              expire |-> expire, id |-> r.id,
                              err |-> r.err, query |-> query]]
    /\ GetterFrame

NextGetter ==
    \/ GetterNil
    \/ \E txid \in TicketHashes, txDbID \in TicketDbIDs :
          GetterSet(txid, txDbID)
    \/ \E pairs \in [TicketHashes -> TicketDbIDs] : GetterSetN(pairs)
    \/ \E txid \in TicketHashes, expire \in BOOLEAN, query \in QueryResults :
          GetterTxnDbID(txid, expire, query)

SpecGetter == InitCache /\ [][NextGetter]_vars

----------------------------------------------------------------------------
(* UpdateSpendingInfoInAllAddresses: the spending info of every address row,
   set in chunks of updatesPerDBTx vin row ids *)

\* every variable but upd
RebuildFrame ==
    UNCHANGED <<db, bestBlock, bestBlockHash, lastBlock, ticketCache, cfg, pc,
                args, task, loc, ret, calls, fails, pre, snap, trace, phase, ab,
                tp, dfb, tg, rw, ps>>

\* what a storage call of the rebuild reports
RebuildOutcomes == {"ok", "err"}

\* endChunk: the end of the chunk that starts at i, capped by the number of
\* vin row ids
EndChunk(i, totalVinIbIDs) ==
    IF i + updatesPerDBTx > totalVinIbIDs THEN totalVinIbIDs
    ELSE i + updatesPerDBTx

\* the call begins: RetrieveAllVinDbIDs returns total vin row ids, or fails
\* and the call returns 0 and the error
UpdateSpendingInfoInAllAddressesStart(total, o) ==
    /\ upd.pc = "idle"
    /\ upd' = IF o = "ok"
              THEN [upd EXCEPT !.pc = "loop", !.totalVinIbIDs = total, !.i = 0,
                               !.numAddresses = 0, !.err = "nil",
                               !.chunks = 0, !.afterQuit = 0,
                               !.returned = FALSE, !.log = << >>]
              ELSE [upd EXCEPT !.pc = "idle", !.totalVinIbIDs = 0, !.i = 0,
                               !.numAddresses = 0, !.err = o,
                               !.chunks = 0, !.afterQuit = 0,
                               !.ret = [numAddresses |-> 0, err |-> o],
                               !.returned = TRUE, !.log = << >>]
    /\ RebuildFrame

\* one turn of the loop: SetSpendingForVinDbIDs on the chunk that starts at
\* i. A failure is logged and the loop goes on with the next chunk. Nothing
\* in the loop reads the quit channel.
UpdateSpendingInfoInAllAddressesChunk(o) ==
    /\ upd.pc = "loop"
    /\ upd.i < upd.totalVinIbIDs
    /\ upd' = [upd EXCEPT
                 !.err = ErrOf(o),
                 !.numAddresses =
                     IF o = "ok"
                     THEN @ + (EndChunk(upd.i, upd.totalVinIbIDs) - upd.i)
                     ELSE @,
                 !.i = @ + updatesPerDBTx,
                 !.chunks = @ + 1,
                 !.afterQuit = IF upd.quit THEN @ + 1 ELSE @,
                 !.log = Append(@, [from |-> upd.i,
                                    to |-> EndChunk(upd.i, upd.totalVinIbIDs),
                                    o |-> o])]
    /\ RebuildFrame

\* the loop is over: the call returns the number of address rows set and
\* the error of the last chunk
UpdateSpendingInfoInAllAddressesReturn ==
    /\ upd.pc = "loop"
    /\ upd.i >= upd.totalVinIbIDs
    /\ upd' = [upd EXCEPT !.pc = "idle",
                          !.ret = [numAddresses |-> upd.numAddresses,
                                   err |-> upd.err],
                          !.returned = TRUE]
    /\ RebuildFrame

\* the quit channel of the sync is closed
RebuildQuit ==
    /\ ~upd.quit
    /\ upd' = [upd EXCEPT !.quit = TRUE]
    /\ RebuildFrame

NextRebuild ==
    \/ \E total \in 0..MaxVins, o \in RebuildOutcomes :
            UpdateSpendingInfoInAllAddressesStart(total, o)
    \/ \E o \in RebuildOutcomes : UpdateSpendingInfoInAllAddressesChunk(o)
    \/ UpdateSpendingInfoInAllAddressesReturn
    \/ RebuildQuit

SpecRebuild == InitCache /\ [][NextRebuild]_vars

----------------------------------------------------------------------------
(* RewindStakeDB: blocks are disconnected from the stake database of the
   wiredDB until it is at the height asked for *)

\* every variable but rw
RewindFrame ==
    UNCHANGED <<db, bestBlock, bestBlockHash, lastBlock, ticketCache, cfg, pc,
                args, task, loc, ret, calls, fails, pre, snap, trace, phase, ab,
                tp, dfb, tg, upd, ps>>

\* the heights a caller may ask for
ToHeights == (0 - 1)..(MaxStakeHeight + 1)

\* if toHeight < 0 { toHeight = 0 }
ClampToHeight(toHeight) == IF toHeight < 0 THEN 0 ELSE toHeight

\* the condition of the loop (mutation: the loop also runs at the height
\* asked for)
RewindContinuesAt(stakeDBHeight, toHeight) == stakeDBHeight >= toHeight
RewindContinues(stakeDBHeight, toHeight) == stakeDBHeight > toHeight

\* return: the named results stakeDBHeight and err go to the caller
RewindReturn(r) ==
    [r EXCEPT !.pc = "idle",
              !.ret = [stakeDBHeight |-> r.stakeDBHeight, err |-> r.err],
              !.returned = TRUE]

\* resyncDB connects the next block to the stake database
StakeDBConnectBlock ==
    /\ rw.pc = "idle"
    /\ rw.Height < MaxStakeHeight
    /\ rw' = [rw EXCEPT !.Height = @ + 1, !.returned = FALSE]
    /\ RewindFrame

\* the call begins: the height of the stake database is read, a negative
\* toHeight becomes 0
RewindStakeDBStart(toHeight) ==
    /\ rw.pc = "idle"
    /\ rw' = [rw EXCEPT !.pc = "loop", !.arg = toHeight,
                        !.toHeight = ClampToHeight(toHeight),
                        !.stakeDBHeight = rw.Height,
                        !.fromHeight = rw.Height,
                        !.err = "nil", !.disconnected = 0,
                        !.cancelled = FALSE, !.returned = FALSE]
    /\ RewindFrame

\* the head of the loop: the call returns when the height asked for is
\* reached, and when the quit channel is closed
RewindStakeDBLoop ==
    /\ rw.pc = "loop"
    /\ rw' = IF ~RewindContinues(rw.stakeDBHeight, rw.toHeight)
             THEN RewindReturn(rw)
             ELSE IF rw.quit
             THEN RewindReturn([rw EXCEPT !.cancelled = TRUE])
             ELSE [rw EXCEPT !.pc = "DisconnectBlock"]
    /\ RewindFrame

\* db.sDB.DisconnectBlock(false): the best block of the stake database is
\* disconnected and the height read again, or the call returns the error
RewindStakeDBDisconnectBlock(o) ==
    /\ rw.pc = "DisconnectBlock"
    /\ rw' = IF o = "ok"
             THEN [rw EXCEPT !.pc = "loop", !.Height = @ - 1,
                             !.stakeDBHeight = rw.Height - 1,
                             !.disconnected = @ + 1]
             ELSE RewindReturn([rw EXCEPT !.err = o])
    /\ RewindFrame

\* the quit channel is closed
RewindQuit ==
    /\ ~rw.quit
    /\ rw' = [rw EXCEPT !.quit = TRUE]
    /\ RewindFrame

NextRewind ==
    \/ StakeDBConnectBlock
    \/ \E toHeight \in ToHeights : RewindStakeDBStart(toHeight)
    \/ RewindStakeDBLoop
    \/ \E o \in RebuildOutcomes : RewindStakeDBDisconnectBlock(o)
    \/ RewindQuit

SpecRewind == InitCache /\ [][NextRewind]_vars

----------------------------------------------------------------------------
(* storeTxns: the pool status batch of the winners that did not vote and of
   the expired tickets of a block *)

\* every variable but ps
BatchFrame ==
    UNCHANGED <<db, bestBlock, bestBlockHash, lastBlock, ticketCache, cfg, pc,
                args, task, loc, ret, calls, fails, pre, snap, trace, phase, ab,
                tp, dfb, tg, upd, rw>>

\* the ticket hashes
PoolTickets == 1..MaxTickets

\* the sequences of distinct elements of S: a map in the order in which a
\* range loop visits it, and the slices the stake node hands out
RECURSIVE DistinctSeqs(_)
DistinctSeqs(S) ==
    { << >> } \cup
    UNION { { <<x>> \o q : q \in DistinctSeqs(S \ {x}) } : x \in S }

\* the orders in which tickets come out of a map or of the stake node
TicketSeqs == DistinctSeqs(PoolTickets)

\* _, justRevoked := revokes[emHash] (mutation: a revoked ticket is not
\* told from the others)
JustRevokedNever(revokes, h) == FALSE
JustRevoked(revokes, h) == h \in revokes

\* the loop over missesHashIDs: the winners that did not vote and are not
\* revoked in this block, every one with the status missed
RECURSIVE UnspentMissed(_, _)
UnspentMissed(misses, revokes) ==
    IF misses = << >> THEN [hashes |-> << >>, statuses |-> << >>]
    ELSE LET rest == UnspentMissed(Tail(misses), revokes)
         IN  IF ~JustRevoked(revokes, Head(misses))
             THEN [hashes |-> <<Head(misses)>> \o rest.hashes,
                   statuses |-> <<"missed">> \o rest.statuses]
             ELSE rest

\* the loop over MissedByBlock: batch gets every ticket of missed for which
\* ExistsExpiredTicket holds and that is neither in unspentMisses nor
\* revoked in this block, with the status expired
RECURSIVE AppendExpired(_, _, _, _, _)
AppendExpired(batch, missed, expired, unspentMisses, revokes) ==
    IF missed = << >> THEN batch
    ELSE LET h == Head(missed)
             justMissed == h \in unspentMisses
             next == IF /\ h \in expired
                        /\ ~justMissed /\ ~JustRevoked(revokes, h)
                     THEN [hashes |-> Append(batch.hashes, h),
                           statuses |-> Append(batch.statuses, "expired")]
                     ELSE batch
         IN  AppendExpired(next, Tail(missed), expired, unspentMisses,
                           revokes)

\* unspentEnM and missStatuses, the arguments of
\* SetPoolStatusForTicketsByHash
PoolStatusBatch(misses, revokes, missed, expired) ==
    LET unspent == UnspentMissed(misses, revokes)
        unspentMisses == {unspent.hashes[i] : i \in 1..Len(unspent.hashes)}
    IN  AppendExpired(unspent, missed, expired, unspentMisses, revokes)

\* storeTxns builds the batch of a block: misses are the winners that did
\* not vote in the order of the map, revokes the tickets revoked in this
\* block, missed what MissedByBlock returns and expired the tickets for
\* which ExistsExpiredTicket holds
BuildPoolStatusBatch(misses, revokes, missed, expired) ==
    /\ LET batch == PoolStatusBatch(misses, revokes, missed, expired)
       IN  ps' = [done |-> TRUE, missesHashIDs |-> misses,
                  revokes |-> revokes, MissedByBlock |-> missed,
                  expired |-> expired, unspentEnM |-> batch.hashes,
                  missStatuses |-> batch.statuses]
    /\ BatchFrame

\* SetPoolStatusForTicketsByHash was called with the batch; storeTxns goes
\* on to the next block
PoolStatusBatchUsed ==
    /\ ps.done
    /\ ps' = NoBatch
    /\ BatchFrame

NextPoolStatus ==
    \/ /\ ~ps.done
       /\ \E misses \in TicketSeqs, revokes \in SUBSET PoolTickets,
             missed \in TicketSeqs, expired \in SUBSET PoolTickets :
               BuildPoolStatusBatch(misses, revokes, missed, expired)
    \/ PoolStatusBatchUsed

SpecPoolStatus == InitCache /\ [][NextPoolStatus]_vars

----------------------------------------------------------------------------
(* The program *)

\* the callers pass isValid = true
IsValidInputs == {TRUE}

Next ==
    \/ NewChainDB
    \/ \E b \in Blocks, v \in IsValidInputs, m \in BOOLEAN :
          StoreBlockStart(b, v, m)
    \/ \E tr \in Trees : InsertVoutsStep(tr)
    \/ \E tr \in Trees : InsertVinsStep(tr)
    \/ \E tr \in Trees : InsertTxnsStep(tr)
    \/ InsertTicketsStep
    \/ InsertVotesStep
    \/ CollectTicketSpendDBInfoStep
    \/ SetSpendingForTicketsStep
    \/ SetPoolStatusForTicketsByHashStep
    \/ \E tr \in Trees : InsertAddressRowsStep(tr)
    \/ \E tr \in Trees : SetSpendingForFundingOPStep(tr)
    \/ StoreBlockJoin
    \/ InsertBlockStep
    \/ InsertBlockPrevNextStep
    \/ BlockStatusStep
    \/ RetrieveBlockChainDbIDStep
    \/ UpdateLastBlockValidStep
    \/ UpdateBlockNextStep
    \/ UpdateLastVinsStep
    \/ UpdateTransactionsValidStep
    \/ UpdateLastAddressesValidStep
    \/ StoreBlockTail
    \/ \E h \in Blocks : TipToSideChainStart(h)
    \/ TipToSideChainReturn
    \/ TipSetMainchainByBlockHash
    \/ TipUpdateTransactionsMainchain
    \/ TipSetVinsMainchainByBlock
    \/ TipUpdateAddressesMainchainByIDs
    \/ TipUpdateVotesMainchain
    \/ TipUpdateTicketsMainchain
    \/ TipAdvance

Spec == Init /\ [][Next]_vars

SpecFail == InitFail /\ [][Next]_vars

SpecReorg == InitReorg /\ [][Next]_vars

SpecNoRows == InitNoRows /\ [][Next]_vars

SpecRevoke == InitRevoke /\ [][Next]_vars

SpecBatch == InitBatch /\ [][Next]_vars
SpecOtherBranch == InitOtherBranch /\ [][Next]_vars

----------------------------------------------------------------------------
(* Properties *)

\* the blocks from tip down to, and without, root; every ancestor of tip
\* when root is none of them
PathAbove(tip, root) ==
    LET anc == {tip, PrevBlock(tip), PrevBlock(PrevBlock(tip))} \cap Blocks
    IN  IF root \in anc
        THEN {x \in anc : HeaderHeight(x) > HeaderHeight(root)}
        ELSE anc

\* the classification flags of the rows that belong to block x in tables d
FlagsOf(d, x) ==
    << [b \in (DOMAIN d.blocks) \cap {x} |->
            <<d.blocks[b].is_valid, d.blocks[b].is_mainchain>>],
       [t \in {t \in DOMAIN d.txns : BlockOf(t) = x} |->
            <<d.txns[t].is_valid, d.txns[t].is_mainchain>>],
       [v \in {v \in DOMAIN d.vins : BlockOf(v) = x} |->
            <<d.vins[v].is_valid, d.vins[v].is_mainchain>>],
       [k \in {k \in DOMAIN d.addrs : BlockOf(k[2]) = x} |->
            d.addrs[k].valid_mainchain],
       [t \in {t \in DOMAIN d.votes : BlockOf(t) = x} |->
            d.votes[t].is_mainchain],
       [t \in {t \in DOMAIN d.tickets : BlockOf(t) = x} |->
            d.tickets[t].is_mainchain] >>

\* every row of block b that storeTxns must insert is stored
AllRowsStored(b) ==
    /\ BlockVouts(b) \subseteq db.vouts
    /\ BlockVins(b) \subseteq DOMAIN db.vins
    /\ BlockTxs(b) \subseteq DOMAIN db.txns
    /\ {t \in BlockTxs(b) : t[2] = "tk"} \subseteq DOMAIN db.tickets
    /\ {t \in BlockTxs(b) : t[2] = "vt"} \subseteq DOMAIN db.votes
    /\ {<<"f", o>> : o \in BlockVouts(b)} \subseteq DOMAIN db.addrs

\* the rows of the stored block b agree with the flags of its block row
FlagsAgree(b) ==
    LET blk == db.blocks[b]
    IN  /\ \A t \in StoredTxs(db, b) :
              /\ db.txns[t].is_mainchain = blk.is_mainchain
              /\ t \in RegularTxs(b) => db.txns[t].is_valid = blk.is_valid
        /\ \A v \in DOMAIN db.vins : BlockOf(v) = b =>
              /\ db.vins[v].is_mainchain = blk.is_mainchain
              /\ TxOf(v) \in RegularTxs(b) => db.vins[v].is_valid = blk.is_valid
        /\ \A k \in DOMAIN db.addrs : BlockOf(k[2]) = b =>
              db.addrs[k].valid_mainchain =
                  (blk.is_mainchain /\
                   (TxOf(k[2]) \in RegularTxs(b) => blk.is_valid))
        /\ \A t \in DOMAIN db.votes : BlockOf(t) = b =>
              db.votes[t].is_mainchain = blk.is_mainchain
        /\ \A t \in DOMAIN db.tickets : BlockOf(t) = b =>
              db.tickets[t].is_mainchain = blk.is_mainchain

\* the block row of b and every row that belongs to b is stored and carries
\* mainchain flag m
RowsMainchain(b, m) ==
    /\ b \in DOMAIN db.blocks
    /\ AllRowsStored(b)
    /\ db.blocks[b].is_mainchain = m
    /\ FlagsAgree(b)

C2_ErrorKeepsBest ==
    (pc = "idle" /\ ret.op = "store" /\ ret.err # "nil") =>
        /\ bestBlock = pre.bestBlock
        /\ bestBlockHash = pre.bestBlockHash

\* C3: a stored block row has all rows of its block's two trees stored, and
\* the block pgb.bestBlockHash names has a block row: whenever the best hash
\* names block B, B's output, input, transaction, ticket, vote and funding
\* address rows are stored.
C3_BlockRowLast ==
    /\ \A b \in DOMAIN db.blocks : AllRowsStored(b)
    /\ bestBlockHash \in Blocks =>
          /\ bestBlockHash \in DOMAIN db.blocks
          /\ AllRowsStored(bestBlockHash)

\* block Bp became the best block in a StoreBlock call in which a storage
\* call failed without stopping the call
C3_Witness ==
    /\ pc = "idle" /\ ret.op = "store" /\ ret.err = "nil" /\ ret.block = "Bp"
    /\ bestBlockHash = "Bp" /\ pre.bestBlockHash = "C"
    /\ phase = "run" /\ fails = 1

C5_NoDanglingReference ==
    /\ \A v \in DOMAIN db.vins :
          BlockOf(PrevOut(v)) = BlockOf(v) => PrevOut(v) \in db.vouts
    /\ \A t \in DOMAIN db.txns :
          /\ db.txns[t].vinIds \subseteq DOMAIN db.vins
          /\ db.txns[t].voutIds \subseteq db.vouts
    /\ \A b \in DOMAIN db.blocks : db.blocks[b].txIds \subseteq DOMAIN db.txns

\* the regular tree of Bp stored the input that spends the coinbase output
\* of Bp while the stake tree, after a failed storage call, is still at work
C5_Witness ==
    /\ args.op = "store" /\ args.block = "Bp" /\ fails = 1
    /\ <<"Bp", "r1", 0>> \in DOMAIN db.vins
    /\ <<"txns", "Bp", "reg">> \in trace
    /\ task["stk"].pc \notin {"done", "off"}

Reorganized ==
    /\ RowsMainchain("B", FALSE) /\ RowsMainchain("C", FALSE)
    /\ RowsMainchain("Bp", TRUE) /\ RowsMainchain("Cp", TRUE)
    /\ bestBlockHash = "Cp"

C8_ReturnAtMainRoot ==
    (pc = "idle" /\ ret.op = "tip") =>
        /\ ret.finalHash = ret.mainRoot
        /\ bestBlockHash = ret.mainRoot
        /\ bestBlock = RetrieveBlockHeight(db, ret.mainRoot)
        /\ ret.blocksMoved =
              Cardinality(PathAbove(pre.bestBlockHash, ret.mainRoot))
        /\ pre.bestBlockHash = ret.mainRoot =>
              ret.blocksMoved = 0 /\ trace = {}

\* C9: no step of TipToSideChain(mainRoot) changes a classification flag of
\* a row that belongs to mainRoot, to a block before it, or to any other
\* block that is not on the path from the old tip down to mainRoot.
C9_TipFrame ==
    [][args.op = "tip" =>
          \A x \in Blocks \ PathAbove(loc.tip0, args.mainRoot) :
              FlagsOf(db', x) = FlagsOf(db, x)]_vars

\* TipToSideChain(B) moved C, a storage call having failed on the way; B is
\* still the main chain block that C invalidated
C9_Witness ==
    /\ pc = "idle" /\ ret.op = "tip" /\ ret.mainRoot = "B"
    /\ ret.blocksMoved = 1 /\ fails = 1
    /\ ~db.blocks["C"].is_mainchain
    /\ db.blocks["B"].is_mainchain /\ ~db.blocks["B"].is_valid
    /\ db.votes[<<"B", "vt">>].is_mainchain

\* C10: in TipToSideChain, whatever steps fail for a stored block, all six
\* steps are attempted for it, the walk then moves to its previous block,
\* and the call returns a nil error.
C10_WalkGoesOn ==
    [][/\ (pc = "TipAdvance" /\ pc' = "TipLoop" /\
           loc.tipHash \in DOMAIN db.blocks) =>
              /\ \A step \in {"block", "txns", "vins", "addrs", "votes",
                              "tickets"} : <<step, loc.tipHash, "">> \in trace
              /\ loc'.tipHash = PrevBlock(loc.tipHash)
       /\ (args.op = "tip" /\ pc' = "idle") => ret'.err = "nil"]_vars

\* h and the blocks up to two previous-hash links below it
AncestorsOf(h) == {h, PrevBlock(h), PrevBlock(PrevBlock(h))} \cap Blocks

\* C11: when mainRoot is the tip or an ancestor of it along the stored
\* previous-hash links, TipToSideChain(mainRoot) returns whatever steps fail:
\* every round of the loop moves the walk one block closer to mainRoot, so
\* the walk stays on the chain from the old tip down to mainRoot and the
\* loop body is entered at most once for each block above mainRoot.
C11_WalkReturns ==
    (/\ args.op = "tip"
     /\ loc.tip0 \in DOMAIN db.blocks
     /\ args.mainRoot \in AncestorsOf(loc.tip0)) =>
        /\ loc.tipHash \in AncestorsOf(loc.tip0)
        /\ HeaderHeight(loc.tipHash) >= HeaderHeight(args.mainRoot)
        /\ loc.blocksMoved <=
              Cardinality(PathAbove(loc.tip0, args.mainRoot))

\* the validity flags of the rows that belong to the transactions txs in
\* tables d
ValidOf(d, txs) ==
    << [t \in (DOMAIN d.txns) \cap txs |-> d.txns[t].is_valid],
       [v \in {v \in DOMAIN d.vins : TxOf(v) \in txs} |-> d.vins[v].is_valid],
       [k \in {k \in DOMAIN d.addrs : TxOf(k[2]) \in txs} |->
            d.addrs[k].valid_mainchain] >>

\* the stake-tree transactions of block b
StakeTxs(b) == BlockTxs(b) \ RegularTxs(b)

\* C12: no step of a StoreBlock call for a block N that disapproves its
\* parent changes a validity flag of a block other than N and N's parent,
\* of its transactions, inputs or address rows; of the parent's rows, those
\* of the stake tree keep their validity flags and the ticket and vote rows
\* are left as they are but for the spending of a ticket.
C12_CascadeOneBlockDeep ==
    [][(args.op = "store" /\ ~VoteBitsApprove(args.block)) =>
          LET last == PrevBlock(args.block)
          IN  /\ \A x \in Blocks \ {args.block, last} :
                    /\ ValidOf(db', BlockTxs(x)) = ValidOf(db, BlockTxs(x))
                    /\ x \in DOMAIN db.blocks =>
                          db'.blocks[x].is_valid = db.blocks[x].is_valid
              /\ ValidOf(db', StakeTxs(last)) = ValidOf(db, StakeTxs(last))
              /\ \A t \in DOMAIN db.votes : BlockOf(t) # args.block =>
                    db'.votes[t] = db.votes[t]
              /\ \A t \in DOMAIN db.tickets : BlockOf(t) # args.block =>
                    db'.tickets[t].is_mainchain = db.tickets[t].is_mainchain]_vars

\* C, stored on the chain A, B, invalidated the block, the regular
\* transactions, their inputs and address rows of B; the stake transactions
\* of B and all rows of A are valid
C12_Witness ==
    /\ pc = "idle" /\ phase = "run" /\ ret.op = "store" /\ ret.block = "C"
    /\ ret.err = "nil"
    /\ ~db.blocks["B"].is_valid
    /\ \A t \in RegularTxs("B") : ~db.txns[t].is_valid
    /\ ~db.vins[<<"B", "r1", 0>>].is_valid
    /\ ~db.addrs[<<"f", <<"B", "r0", 0>>>>].valid_mainchain
    /\ \A t \in StakeTxs("B") : db.txns[t].is_valid
    /\ db.vins[<<"B", "vt", 1>>].is_valid
    /\ db.addrs[<<"f", <<"B", "tk", 0>>>>].valid_mainchain
    /\ db.blocks["A"].is_valid
    /\ \A t \in BlockTxs("A") : db.txns[t].is_valid
    /\ db.addrs[<<"f", <<"A", "r0", 0>>>>].valid_mainchain

\* the number of input rows and of output rows of tree tr of block b
TreeCounts(b, tr) ==
    [numVins |-> Cardinality(UNION {VinsOf(t) : t \in SeqRange(TreeTxs(b, tr))}),
     numVouts |-> Cardinality(UNION {VoutsOf(t) :
                                        t \in SeqRange(TreeTxs(b, tr))})]

\* C13: when StoreBlock has received the results of its two storeTxns tasks
\* and one of them carries an error, StoreBlock returns an error, the block
\* row was not inserted and pgb.bestBlock and pgb.bestBlockHash are as they
\* were when the call began; when exactly one task carries an error, the
\* counts returned are the numbers of input and output rows of the other
\* task's tree.
C13_JoinKeepsError ==
    [][(pc = "join" /\ pc' # "join") =>
          LET failed == {tr \in Trees : task[tr].err # "nil"}
          IN  /\ failed # {} =>
                    /\ pc' = "idle"
                    /\ ret'.op = "store" /\ ret'.block = args.block
                    /\ ret'.err # "nil"
                    /\ <<"block", args.block, "">> \notin trace'
                    /\ db'.blocks = db.blocks
                    /\ bestBlock' = pre.bestBlock
                    /\ bestBlockHash' = pre.bestBlockHash
              /\ \A tr \in failed : \A other \in Trees \ failed :
                    /\ ret'.numVins = TreeCounts(args.block, other).numVins
                    /\ ret'.numVouts = TreeCounts(args.block, other).numVouts]_vars

\* StoreBlock(Bp) returned an error and the counts of the stake tree, three
\* inputs and two outputs, after the regular tree failed; Bp has no block
\* row and C is still the best block
C13_Witness ==
    /\ pc = "idle" /\ phase = "run" /\ ret.op = "store" /\ ret.block = "Bp"
    /\ ret.err # "nil" /\ ret.numVins = 3 /\ ret.numVouts = 2
    /\ <<"txns", "Bp", "reg">> \notin trace
    /\ <<"votes", "Bp", "stk">> \in trace
    /\ "Bp" \notin DOMAIN db.blocks
    /\ bestBlockHash = "C"

\* C14: a StoreBlock call whose PoolInfo lookup finds nothing is the call
\* for a main chain block with a parent; it returns an error at once: no
\* storeTxns task is started, no table, neither pgb.bestBlock nor
\* pgb.bestBlockHash nor a cache changes. A call for a block whose previous
\* hash is the zero hash starts its two tasks.
C14_PoolInfoNotFound ==
    [][/\ (pc = "idle" /\ fails' # fails) =>
              /\ pc' = "idle"
              /\ ret'.op = "store" /\ ret'.err # "nil"
              /\ ret'.isMainchain /\ PrevBlock(ret'.block) # ZeroHash
              /\ task' = [tr \in Trees |-> TaskOff]
              /\ trace' = {}
              /\ db' = db
              /\ bestBlock' = bestBlock /\ bestBlockHash' = bestBlockHash
              /\ lastBlock' = lastBlock /\ ticketCache' = ticketCache
       /\ (pc = "idle" /\ calls' = calls + 1 /\ pc' = "idle") =>
              fails' # fails
       /\ (pc = "idle" /\ pc' = "join" /\ PrevBlock(args'.block) = ZeroHash) =>
              /\ fails' = fails
              /\ task' = [tr \in Trees |-> TaskStart]]_vars

\* StoreBlock(Bp) as a main chain block returned an error at once, with the
\* chain A, B, C stored and C the best block
C14_Witness ==
    /\ pc = "idle" /\ phase = "run" /\ fails = 1
    /\ ret.op = "store" /\ ret.block = "Bp" /\ ret.isMainchain
    /\ ret.err # "nil" /\ trace = {}
    /\ "Bp" \notin DOMAIN db.blocks /\ <<"Bp", "r0", 0>> \notin db.vouts
    /\ bestBlockHash = "C" /\ bestBlock = 2

\* C15: in a StoreBlock call a storage call that reports a failure ends the
\* work: the storeTxns task that made the call returns at once with the
\* error, a failing call of StoreBlock itself makes StoreBlock return at
\* once with a non-nil error; only a failure of SetSpendingForFundingOP is
\* passed over.
C15_FailureAborts ==
    [][(args.op = "store" /\ fails' # fails) =>
          /\ \A tr \in Trees :
                (task'[tr] # task[tr] /\
                 task[tr].pc # "SetSpendingForFundingOP") =>
                    task'[tr].pc = "done" /\ task'[tr].err # "nil"
          /\ pc # "join" => pc' = "idle" /\ ret'.err # "nil"]_vars

\* C16: a StoreBlock call that found the winners of the previous block and
\* in which storage calls reported sql.ErrNoRows, and none failed otherwise,
\* returns a nil error.
C16_NoRowsNotFatal ==
    (cfg.norows /\ pc = "idle" /\ ret.op = "store" /\ trace # {}) =>
        ret.err = "nil"

\* C17: when CollectTicketSpendDBInfo misses the ticket-ID cache for a
\* spent ticket and the lookup in the tickets table fails, storeTxns goes
\* on without an error and without a spend entry for that ticket.
C17_TicketNotLocated ==
    [][(/\ task["stk"].pc = "CollectTicketSpendDBInfo"
        /\ task'["stk"] # task["stk"]
        /\ fails' # fails) =>
          /\ task'["stk"].err = "nil"
          /\ task'["stk"].pc = "SetSpendingForTickets"
          /\ task'["stk"].spent \subseteq SpentTickets(task["stk"].txIds)
          /\ task'["stk"].spent # SpentTickets(task["stk"].txIds)]_vars

\* the pool status the ticket spent by vote or revocation t is to have
SpendStatus(t) ==
    IF t[2] = "vt" THEN "voted"
    ELSE IF cfg.expired THEN "expired" ELSE "missed"

\* C18: when StoreBlock, called with updateTicketsSpendingInfo = true, has
\* stored a block, the ticket spent by a vote of the block has pool status
\* voted, the ticket spent by a revocation has pool status expired when the
\* stake database reports it as an expired ticket and missed otherwise, and
\* the spend height of the ticket is the height of the block.
C18_SpentTicketStatus ==
    (pc = "idle" /\ ret.op = "store" /\ ret.err = "nil" /\ cfg.updTkt) =>
        \A t \in {x \in BlockTxs(ret.block) : x[2] \in {"vt", "rv"}} :
            LET tk == TxOf(PrevOut(<<t[1], t[2], StakeSubmissionVinInd(t)>>))
            IN  /\ tk \in DOMAIN db.tickets
                /\ db.tickets[tk].pool_status = SpendStatus(t)
                /\ db.tickets[tk].spend_height = HeaderHeight(ret.block)

\* C18 for the calls in which no storage call fails
C18_SpentTicketStatusNoFailure == fails = 0 => C18_SpentTicketStatus


\* two calls of addressBalance for one address that both returned a
\* balance, with no block stored and no reset of the counter since either
\* of them read the best block height
SameHeightCalls(c, d) ==
    /\ c # d
    /\ ab.call[c].op = "addressBalance" /\ ab.call[d].op = "addressBalance"
    /\ ab.call[c].pc = "done" /\ ab.call[d].pc = "done"
    /\ ab.call[c].err = "nil" /\ ab.call[d].err = "nil"
    /\ ab.call[c].address = ab.call[d].address
    /\ ab.call[c].epoch = ab.epoch /\ ab.call[d].epoch = ab.epoch

\* C19: when two callers ask addressBalance for the same address at the
\* same best block height and the cache holds no balance of that height
\* for the address, exactly one balance query reaches storage and both
\* callers return the same balance
C19_SingleFlightBalance ==
    \A c, d \in Callers :
        SameHeightCalls(c, d) =>
            /\ ab.queries[ab.call[c].address] = 1
            /\ ab.call[c].balanceInfo = ab.call[d].balanceInfo
            /\ ab.call[c].balanceInfo # NoBalance

\* C19 witness: the second caller began while the first was at work, the
\* first found a map of an older height and queried, the second was
\* served from the cache
C19_Witness ==
    \E c, d \in Callers :
        /\ SameHeightCalls(c, d)
        /\ ab.call[c].stale /\ ~ab.call[c].fresh
        /\ ab.call[d].fresh /\ ab.call[d].overlap
        /\ ab.queries[ab.call[c].address] = 1

\* the callers that are the updater of the interval: they run the queries
\* of ticketPoolVisualization or are about to write the cache entry
Updaters(interval) ==
    {c \in Callers : /\ tp.call[c].interval = interval
                     /\ tp.call[c].pc \in {"Visualize", "Update", "Unlock"}}

\* C20: per chart interval at most one caller at a time runs the ticket
\* pool queries, that caller holds the interval's updater mutex, and a step
\* that changes the interval's cache entry is taken by the holder of the
\* mutex
C20_OneUpdaterPerInterval ==
    /\ [](\A i \in Intervals :
            /\ Cardinality(Updaters(i)) <= 1
            /\ Updaters(i) \subseteq {tp.permission[i]})
    /\ [][\A i \in Intervals :
            tp'.cache[i] # tp.cache[i] =>
                \E c \in Callers :
                    /\ tp.permission[i] = c
                    /\ tp.call[c].updater
                    /\ tp.call[c].interval = i
                    /\ tp'.call[c] # tp.call[c]]_vars

\* C20 witness: two callers asked for one interval; one became the updater
\* and wrote the cache entry while the other failed to get the mutex
C20_Witness ==
    \E c, d \in Callers :
        /\ c # d
        /\ tp.call[c].interval = tp.call[d].interval
        /\ tp.call[c].updater /\ tp.call[c].pc = "Unlock"
        /\ tp.call[d].contended
        /\ tp.cache[tp.call[c].interval].found

\* a step of TicketPoolVisualization taken by caller c
TicketPoolStep(c) == tp'.call[c] # tp.call[c]

\* C21: a caller that found stale charts of the interval in the cache and
\* fails the TryLock returns in that step, with no error, the charts and the
\* height it read from the cache; the step makes no storage call, takes no
\* mutex and writes no cache entry
C21_StaleReturnedAtOnce ==
    [][\A c \in Callers :
        (/\ TicketPoolStep(c)
         /\ tp.call[c].pc = "TryLock"
         /\ tp.call[c].intervalFound /\ tp.call[c].stale
         /\ tp.permission[tp.call[c].interval] # "none") =>
            /\ tp'.call[c].pc = "done"
            /\ tp'.call[c].err = "nil"
            /\ tp'.call[c].charts = tp.call[c].charts
            /\ tp'.call[c].height = tp.call[c].height
            /\ tp'.call[c].intervalFound
            /\ ~tp'.call[c].updater /\ ~tp'.call[c].waited
            /\ fails' = fails
            /\ tp'.permission = tp.permission
            /\ tp'.cache = tp.cache]_vars

\* C21 witness: a caller returned stale charts while another caller was the
\* updater of the interval
C21_Witness ==
    \E c, d \in Callers :
        /\ c # d
        /\ tp.call[c].pc = "done" /\ tp.call[c].contended
        /\ tp.call[c].intervalFound /\ tp.call[c].stale
        /\ ~tp.call[c].waited /\ tp.call[c].err = "nil"
        /\ tp.call[d].interval = tp.call[c].interval
        /\ tp.call[d].pc = "Visualize"

\* C22: a caller that found no charts of the interval and fails the TryLock
\* waits; it goes on only when no goroutine holds the interval's mutex,
\* looks at the cache again and returns the charts the cache holds then,
\* stale or not, with no error, or an error when the cache holds none; a
\* caller that did not run the queries itself never returns without error
\* and without charts
C22_WaiterRereadsCache ==
    /\ [][\A c \in Callers :
            LET cl == tp.call[c]
                i == cl.interval
            IN  /\ (/\ TicketPoolStep(c) /\ cl.pc = "TryLock"
                    /\ ~cl.intervalFound /\ tp.permission[i] # "none") =>
                        /\ tp'.call[c].pc = "Lock"
                        /\ fails' = fails
                /\ (TicketPoolStep(c) /\ cl.pc = "Lock") =>
                        /\ tp.permission[i] = "none"
                        /\ tp'.call[c].pc = "Reread"
                /\ (TicketPoolStep(c) /\ cl.pc = "Reread") =>
                        /\ tp'.call[c].pc = "done"
                        /\ fails' = fails
                        /\ tp'.cache = tp.cache
                        /\ IF tp.cache[i].found
                           THEN /\ tp'.call[c].err = "nil"
                                /\ tp'.call[c].charts = tp.cache[i].charts
                                /\ tp'.call[c].height = tp.cache[i].Height
                           ELSE tp'.call[c].err # "nil"]_vars
    /\ [](\A c \in Callers :
            (/\ tp.call[c].pc = "done" /\ tp.call[c].err = "nil"
             /\ ~tp.call[c].updater) => tp.call[c].intervalFound)

\* C22 witness: a caller without charts waited for the updater and returned
\* charts that were stale again by then
C22_Witness ==
    \E c \in Callers :
        /\ tp.call[c].pc = "done" /\ tp.call[c].waited
        /\ tp.call[c].err = "nil" /\ tp.call[c].intervalFound
        /\ tp.call[c].stale

\* C22 witness of the other outcome: the updater failed and the waiting
\* caller returned an error
C22_WitnessNoCharts ==
    \E c \in Callers :
        /\ tp.call[c].pc = "done" /\ tp.call[c].waited
        /\ tp.call[c].err = "no charts data"

\* C23: updateDevBalance whose queries succeed replaces the cached balance,
\* height and hash by those of the best block exactly when the best block
\* hash differs from the cached hash or no balance is cached, and changes
\* nothing otherwise; it returns true exactly when it replaced them, and a
\* failed query replaces nothing
C23_RefreshedByHash ==
    [][\A c \in Callers :
        (dfb.call[c].pc = "update" /\ dfb'.call[c].pc = "done") =>
            LET stale == dfb.best # dfb.Hash \/ dfb.AddressBalance = "nil"
                cached(d) == <<d.AddressBalance, d.Height, d.Hash>>
                replaced == dfb'.call[c].updated
            IN  /\ dfb'.call[c].err = "nil" => (replaced <=> stale)
                /\ dfb'.call[c].err # "nil" => ~replaced
                /\ replaced => cached(dfb') = <<dfb.best,
                                                HeaderHeight(dfb.best),
                                                dfb.best>>
                /\ ~replaced => cached(dfb') = cached(dfb)]_vars

\* C23 witness: the cached balance of a block was replaced by that of
\* another block of the same height
C23_Witness ==
    \E c \in Callers :
        /\ dfb.call[c].pc = "done" /\ dfb.call[c].updated
        /\ dfb.call[c].prev.Height = dfb.Height
        /\ dfb.call[c].prev.Hash \notin {ZeroHash, dfb.Hash}
        /\ dfb.Height > 0

\* C24: after a StoreBlock that returned without error outside batch sync
\* the address balance cache is empty and its validHeight is the height of
\* the stored block
C24_CacheResetAfterStore ==
    (/\ pc = "idle" /\ ret.op = "store" /\ ret.err = "nil"
     /\ ~cfg.inBatchSync) =>
        /\ ab.totals.balance = EmptyFn
        /\ ab.totals.validHeight = HeaderHeight(ret.block)

\* the part of C24 the code keeps: in batch sync StoreBlock leaves the
\* address balance cache alone and starts no refresh of the project fund
\* balance, and no refresh is started without devPrefetch or during a
\* reorganization
C24_BatchSyncLeavesCaches ==
    /\ cfg.inBatchSync => (ab = AddressCountsInit /\ ~dfb.refresh)
    /\ dfb.refresh => (cfg.devPrefetch /\ ~cfg.inReorg)

\* a StoreBlock that reached its end outside batch sync did reset the cache
C24_ResetAtTheEnd ==
    [][(pc = "Tail" /\ pc' = "idle" /\ ~cfg.inBatchSync) =>
            /\ ab'.totals = [validHeight |-> HeaderHeight(args.block),
                             balance |-> EmptyFn]
            /\ dfb'.refresh = (dfb.refresh
                                  \/ (cfg.devPrefetch /\ ~cfg.inReorg))]_vars

\* C25: addressBalance and AddressHistory look at the cached balances only
\* once the validHeight of the cache is the best height the call read at
\* its start: on a mismatch the step that takes the mutex empties the map
\* and sets validHeight to that height, and the call is not served from
\* the cache; a call is served from the cache only at its own height
C25_NoBalanceOfAnotherHeight ==
    [][\A c \in Callers :
        LET cl == ab.call[c]
        IN  (cl.pc \in {"Lock", "HistoryLock"} /\ ab'.call[c] # cl) =>
                IF ab.totals.validHeight # cl.bestBlock
                THEN /\ ab'.totals = [validHeight |-> cl.bestBlock,
                                      balance |-> EmptyFn]
                     /\ ~ab'.call[c].fresh
                     /\ ab'.call[c].pc \in {"Query", "Rows"}
                ELSE /\ ab'.totals = ab.totals
                     /\ ab'.call[c].fresh =
                            (cl.address \in DOMAIN ab.totals.balance)
                     /\ ab'.call[c].fresh =>
                            ab'.call[c].balanceInfo =
                                ab.totals.balance[cl.address]]_vars

\* C25 witness: a balance was cached at one height, a block was stored
\* without a reset of the cache, and a call at the new height found the
\* mismatch, emptied the map and asked the tables
C25_Witness ==
    \E c, d \in Callers :
        /\ c # d
        /\ ab.call[d].pc = "done" /\ ab.call[d].err = "nil"
        /\ ab.call[d].balanceInfo # NoBalance
        /\ ab.call[c].pc = "done" /\ ab.call[c].err = "nil"
        /\ ab.call[c].address = ab.call[d].address
        /\ ab.call[c].epoch = ab.call[d].epoch + 1
        /\ ab.call[c].bestBlock = ab.call[d].bestBlock + 1
        /\ ab.call[c].stale /\ ~ab.call[c].fresh
        /\ ab.call[c].balanceInfo # ab.call[d].balanceInfo
        /\ ab.totals.validHeight = ab.call[c].bestBlock

\* a step that is a TxnDbID call
LookupStep == tg'.n = tg.n + 1 /\ tg'.last.op = "TxnDbID"

C26_WitnessMiss ==
    /\ ~tg.isNil /\ tg.n >= 3
    /\ tg.last.op = "TxnDbID" /\ tg.last.err = "norows"
    /\ tg.last.txid \in DOMAIN tg.set
    /\ tg.last.txid \notin DOMAIN tg.idCache

\* C27: on a nil getter Set and SetN do nothing and TxnDbID returns what
\* the Row Store query returns; no operation on it panics
C27_NilGetterTolerated ==
    tg.isNil =>
        /\ tg.idCache = EmptyFn
        /\ tg.last.err # "panic"

C29_NoChunkAfterQuit ==
    [][upd.quit => upd'.chunks = upd.chunks]_vars

\* a call has returned after the signal fired with chunks still to do
C29_QuitBeforeLastChunk ==
    upd.returned /\ upd.quit /\ upd.afterQuit >= 1 /\ upd.chunks >= 2
    /\ upd.ret.err = "nil" /\ upd.ret.numAddresses = upd.totalVinIbIDs

\* the height RewindStakeDB is to reach: max(toHeight, 0)
RewindTarget == IF rw.arg > 0 THEN rw.arg ELSE 0

\* C30: RewindStakeDB(toHeight, quit) disconnects one block at a time and
\* only while the stake database is above max(toHeight, 0). It returns the
\* height of the stake database: with a nil error at max(toHeight, 0), or
\* at the starting height with no block disconnected when toHeight is not
\* below it; with a nil error above max(toHeight, 0) when it saw the quit
\* signal, after which it disconnects nothing; with the error of
\* DisconnectBlock and the height reached so far when that call fails.
C30_RewindStakeDB ==
    /\ [](rw.returned =>
            /\ rw.ret.stakeDBHeight = rw.Height
            /\ rw.Height = rw.fromHeight - rw.disconnected
            /\ (rw.ret.err = "nil" /\ ~rw.cancelled) =>
                   rw.Height = IF rw.fromHeight > RewindTarget
                               THEN RewindTarget ELSE rw.fromHeight
            /\ rw.cancelled =>
                   rw.ret.err = "nil" /\ rw.quit /\ rw.Height > RewindTarget
            /\ rw.ret.err # "nil" =>
                   ~rw.cancelled /\ rw.Height > RewindTarget)
    /\ [][rw'.Height < rw.Height =>
            /\ rw'.Height = rw.Height - 1
            /\ rw.Height > RewindTarget
            /\ ~rw.cancelled]_vars

\* two blocks were disconnected and the call returned at the height asked
\* for
C30_Witness ==
    /\ rw.returned /\ rw.ret.err = "nil" /\ ~rw.cancelled
    /\ rw.disconnected = 2 /\ rw.arg = 1 /\ rw.ret.stakeDBHeight = 1

\* the call saw the quit signal after it disconnected a block
C30_WitnessQuit ==
    rw.returned /\ rw.cancelled /\ rw.disconnected = 1

\* DisconnectBlock failed after a block was disconnected
C30_WitnessError ==
    rw.returned /\ rw.ret.err = "err" /\ rw.disconnected = 1

\* a negative height was asked for and the call stopped at the genesis block
C30_WitnessNegative ==
    rw.returned /\ rw.arg < 0 /\ rw.disconnected = 3 /\ rw.Height = 0

\* C31: a caller of UpdateDevBalance that did not get the updating mutex
\* returns false and a nil error only after the goroutine that held that
\* mutex has run updateDevBalance, so that the cache this caller reads next
\* holds that goroutine's result
C31_UpdaterHasWritten ==
    [][\A c \in Callers :
        (/\ dfb.call[c].pc = "Lock" /\ ~dfb.call[c].okToUpdate
         /\ dfb'.call[c].pc = "done") =>
            dfb.call[c].holder = "finished"]_vars

\* a DevBalance call got false and a nil error from UpdateDevBalance, read
\* the cache and returned an error for want of a balance, while the updater
\* it gave way to has still to run its query
C31_ReadBeforeUpdate ==
    \E c \in Callers :
        /\ dfb.call[c].pc = "returned" /\ dfb.call[c].op = "DevBalance"
        /\ ~dfb.call[c].okToUpdate /\ dfb.call[c].holder \in Callers
        /\ dfb.call[c].err = "failed to update dev balance"
        /\ dfb.call[dfb.call[c].holder].pc = "Lock"

\* C32: a caller of DevBalance or UpdateDevBalance that did not get the
\* updating mutex while a balance is cached does not wait for the update in
\* progress: it is never held at the mutex of the cache while the updater
\* holds it
C32_NoWaitWithCachedBalance ==
    \A c \in Callers :
        ~(/\ dfb.call[c].pc = "Lock" /\ ~dfb.call[c].okToUpdate
          /\ dfb.AddressBalance # "nil"
          /\ dfb.lock \in Callers \ {c})

\* every validity flag of the rows of the transactions txs in tables d is
\* false
AllInvalid(d, txs) ==
    /\ \A t \in (DOMAIN d.txns) \cap txs : ~d.txns[t].is_valid
    /\ \A v \in DOMAIN d.vins : TxOf(v) \in txs => ~d.vins[v].is_valid
    /\ \A k \in DOMAIN d.addrs :
          TxOf(k[2]) \in txs => ~d.addrs[k].valid_mainchain

\* the last call, a StoreBlock that returned no error, was to invalidate the
\* previous block: that block is stored on the branch named by isMainchain
\* and the vote bits of the stored block lack the approval bit
ParentDisapproved ==
    /\ pc = "idle" /\ ret.op = "store" /\ ret.err = "nil"
    /\ PrevBlock(ret.block) # ZeroHash
    /\ PrevBlock(ret.block) \in DOMAIN db.blocks
    /\ db.blocks[PrevBlock(ret.block)].is_mainchain = ret.isMainchain
    /\ ~VoteBitsApprove(ret.block)

\* a step of StoreBlock changes the is_valid flag of a block other than the
\* one it stores only to false, only for the previous block, and only when
\* the previous block is not the zero hash, is stored on the branch named by
\* isMainchain and the vote bits of the new block lack the approval bit
C33_OnlyParentOnlyToFalse ==
    [][args.op = "store" =>
        \A x \in (DOMAIN db.blocks) \ {args.block} :
            db'.blocks[x].is_valid # db.blocks[x].is_valid =>
                /\ ~db'.blocks[x].is_valid
                /\ x = PrevBlock(args.block) /\ x # ZeroHash
                /\ db.blocks[x].is_mainchain = args.isMainchain
                /\ ~VoteBitsApprove(args.block)]_vars

\* C33: StoreBlock sets the is_valid flag of the previous block, of its
\* regular transactions, their inputs and address rows to false exactly
\* when the previous block is not the zero hash, its stored mainchain status
\* is the isMainchain argument and the vote bits of the new block lack the
\* approval bit; it never sets the flag of a previous block to true.
C33_ParentInvalidated ==
    /\ [](ParentDisapproved =>
            /\ ~db.blocks[PrevBlock(ret.block)].is_valid
            /\ AllInvalid(db, RegularTxs(PrevBlock(ret.block))))
    /\ C33_OnlyParentOnlyToFalse

\* C33 for the calls in which no storage call failed
C33_ParentInvalidatedClean ==
    /\ [](ParentDisapproved /\ ret.clean =>
            /\ ~db.blocks[PrevBlock(ret.block)].is_valid
            /\ AllInvalid(db, RegularTxs(PrevBlock(ret.block))))
    /\ C33_OnlyParentOnlyToFalse

\* the transactions, inputs and address rows that belong to the
\* transactions txs in tables d
RowsOf(d, txs) ==
    << [t \in (DOMAIN d.txns) \cap txs |-> d.txns[t]],
       [v \in {v \in DOMAIN d.vins : TxOf(v) \in txs} |-> d.vins[v]],
       [k \in {k \in DOMAIN d.addrs : TxOf(k[2]) \in txs} |-> d.addrs[k]] >>

\* RowsOf without the matching transaction of the address rows
RowsButMatching(d, txs) ==
    << RowsOf(d, txs)[1], RowsOf(d, txs)[2],
       [k \in DOMAIN RowsOf(d, txs)[3] |->
            [RowsOf(d, txs)[3][k] EXCEPT !.matching = NoTx]] >>

\* the StoreBlock in progress stores a block on a previous block of the
\* other branch
OtherBranch ==
    /\ args.op = "store"
    /\ PrevBlock(args.block) \in DOMAIN db.blocks
    /\ db.blocks[PrevBlock(args.block)].is_mainchain # args.isMainchain

\* the part of C34 on how the call ends and on the misses: a StoreBlock on
\* a previous block of the other branch in which no storage call failed
\* returns no error, and no step of a StoreBlock of a side chain block adds
\* a row to the misses table
OtherBranchReturnsNil ==
    /\ [](/\ pc = "idle" /\ ret.op = "store" /\ ret.clean
           /\ PrevBlock(ret.block) \in DOMAIN db.blocks
           /\ db.blocks[PrevBlock(ret.block)].is_mainchain # ret.isMainchain
           => ret.err = "nil")
    /\ [][(args.op = "store" /\ ~args.isMainchain) =>
            db'.misses = db.misses]_vars

C34_MissOnMainChain ==
    /\ pc = "idle" /\ ret.op = "store" /\ ret.block = "C" /\ ret.isMainchain
    /\ ret.err = "nil" /\ <<"B", "tk">> \in db.misses

Elems(q) == {q[i] : i \in 1..Len(q)}

\* (a) of C35: the winners that did not vote and are not revoked in this
\* block
BatchMissed == Elems(ps.missesHashIDs) \ ps.revokes

\* (b) of C35: the tickets of MissedByBlock that are expired, not in (a) and
\* not revoked in this block
BatchExpired ==
    {h \in Elems(ps.MissedByBlock) :
        h \in ps.expired /\ h \notin BatchMissed /\ h \notin ps.revokes}

\* C35: the pool status batch of a block holds the tickets of (a) with the
\* status missed and those of (b) with the status expired and no other; no
\* ticket revoked in this block is in it, no ticket is in it twice, and the
\* list of hashes and the list of statuses have the same length, a status
\* standing at the position of its ticket.
C35_PoolStatusBatch ==
    ps.done =>
        /\ Len(ps.unspentEnM) = Len(ps.missStatuses)
        /\ Elems(ps.unspentEnM) = BatchMissed \cup BatchExpired
        /\ \A i \in 1..Len(ps.unspentEnM) :
              ps.missStatuses[i] = IF ps.unspentEnM[i] \in BatchMissed
                                   THEN "missed" ELSE "expired"
        /\ Elems(ps.unspentEnM) \cap ps.revokes = {}
        /\ Cardinality(Elems(ps.unspentEnM)) = Len(ps.unspentEnM)

\* C35 witness: a batch of a missed and an expired ticket, built for a
\* block in which a winner that did not vote was revoked and the stake node
\* reports it as expired
C35_Witness ==
    /\ ps.done
    /\ ps.missStatuses = <<"missed", "expired">>
    /\ ps.revokes # {} /\ ps.revokes \subseteq Elems(ps.missesHashIDs)
    /\ ps.revokes \subseteq ps.expired
    /\ ps.revokes \subseteq Elems(ps.MissedByBlock)

----------------------------------------------------------------------------
(* ticketPoolVisualization: the height of the returned charts *)

\* caller c ends a round of ticketPoolVisualization without a query error
RoundEnds(c) ==
    /\ tp.call[c].pc = "Visualize"
    /\ tp'.call[c] # tp.call[c]
    /\ tp'.call[c].err = "nil"

\* C36: the height ticketPoolVisualization returns is the best height read
\* before the round of queries that produced the returned charts and the
\* best height at the end of that round; a round during which the best
\* height changed is repeated and its charts are not stored; the height
\* and the charts written to the interval's cache entry are those returned
C36_HeightOfTheRound ==
    /\ [][\A c \in Callers :
            RoundEnds(c) =>
                IF bestBlock = tp.call[c].height
                THEN /\ tp'.call[c].pc = "Update"
                     /\ tp'.call[c].height = tp.call[c].height
                     /\ tp'.call[c].height = bestBlock'
                     /\ tp'.call[c].charts = tp.version
                ELSE /\ tp'.call[c].pc = "Visualize"
                     /\ tp'.call[c].height = bestBlock'
                     /\ tp'.cache = tp.cache]_vars
    /\ [][\A i \in Intervals :
            tp'.cache[i] # tp.cache[i] =>
                \E c \in Callers :
                    /\ tp.call[c].pc = "Update" /\ tp.call[c].interval = i
                    /\ tp'.cache[i].Height = tp.call[c].height
                    /\ tp'.cache[i].charts = tp.call[c].charts]_vars

\* C36 witness: the best height changed during the first round of an
\* updater, the round was repeated, and the cache entry of the interval
\* holds the height and the charts of the second round
C36_Witness ==
    \E c \in Callers :
        /\ tp.call[c].pc = "Unlock" /\ tp.call[c].updater
        /\ tp.call[c].repeated
        /\ tp.call[c].height = bestBlock
        /\ tp.cache[tp.call[c].interval] =
                [found |-> TRUE, Height |-> tp.call[c].height,
                 charts |-> tp.call[c].charts]

----------------------------------------------------------------------------
(* TipToSideChain: the inputs follow their transactions *)

\* the third step of the loop body is taken: SetVinsMainchainByBlock
InputStep ==
    /\ pc = "SetVinsMainchainByBlock"
    /\ pc' = "UpdateAddressesMainchainByIDs"

\* the fourth step of the loop body is taken: UpdateAddressesMainchainByIDs
AddressStep ==
    /\ pc = "UpdateAddressesMainchainByIDs"
    /\ pc' = "UpdateVotesMainchain"

\* the stored input rows of the block at the tip
TipVins == RetrieveVinsByBlock(db, loc.tipHash) \cap DOMAIN db.vins

\* the step gave input v the flag its transaction had when the step read
\* the transactions of the block
Mirrored(v) == db'.vins[v].is_mainchain = db.txns[TxOf(v)].is_mainchain

\* the step returned the identifiers of the inputs and outputs of the block
ReturnsIdsOfBlock ==
    /\ loc'.vinDbIDsBlk = RetrieveVinsByBlock(db, loc.tipHash)
    /\ loc'.voutDbIDsBlk = RetrieveVoutsByBlock(db, loc.tipHash)

\* the address step changes only rows named by the identifiers the input
\* step returned, and without a failure sets each of them to false
AddressRowsByReturnedIds ==
    [][AddressStep =>
        LET keys == {<<"s", v>> : v \in loc.vinDbIDsBlk}
                        \cup {<<"f", o>> : o \in loc.voutDbIDsBlk}
        IN  /\ DOMAIN db'.addrs = DOMAIN db.addrs
            /\ \A k \in DOMAIN db.addrs :
                    /\ db'.addrs[k] # db.addrs[k] => k \in keys
                    /\ (fails' = fails /\ k \in keys) =>
                            ~db'.addrs[k].valid_mainchain]_vars

C37_WitnessSideChain ==
    /\ pc = "UpdateAddressesMainchainByIDs"
    /\ fails = pre.fails
    /\ loc.vinDbIDsBlk # {}
    /\ \A v \in loc.vinDbIDsBlk :
            /\ v \in DOMAIN db.vins
            /\ ~db.txns[TxOf(v)].is_mainchain
            /\ ~db.vins[v].is_mainchain

----------------------------------------------------------------------------
(* the address balance cache under AddressHistory and StoreBlock *)

\* C38: no entry of the address balance cache was computed at a height
\* below the validHeight of the cache: a balance computed before the map
\* was reset for a newer height is not written into the map afterwards
\* (a cached balance is the height of the tables it was computed from)
C38_NoOlderBalanceInCache ==
    \A a \in DOMAIN ab.totals.balance :
        ab.totals.balance[a] >= ab.totals.validHeight

\* an AddressHistory call has written, into the map that StoreBlock reset
\* for the height of the tables, a balance computed at a lower height
C38_OlderBalanceWritten ==
    \E c \in Callers :
        /\ ab.call[c].op = "AddressHistory" /\ ab.call[c].pc = "done"
        /\ ab.call[c].err = "nil"
        /\ ab.call[c].address \in DOMAIN ab.totals.balance
        /\ ab.totals.balance[ab.call[c].address] = ab.call[c].balanceInfo
        /\ ab.call[c].balanceInfo < ab.totals.validHeight
        /\ ab.totals.validHeight = ab.height

----------------------------------------------------------------------------
(* the best block of the facade *)

\* between calls pgb.bestBlockHash and pgb.bestBlock name a stored block
\* of the main chain
BestIsMainchain ==
    (pc = "idle" /\ bestBlockHash \in DOMAIN db.blocks) =>
        /\ db.blocks[bestBlockHash].is_mainchain
        /\ bestBlock = HeaderHeight(bestBlockHash)

\* no step of a StoreBlock call for a side chain block changes
\* pgb.bestBlock or pgb.bestBlockHash
SideChainStoreKeepsBest ==
    [][(args.op = "store" /\ ~args.isMainchain /\ pc # "idle") =>
            /\ bestBlock' = bestBlock
            /\ bestBlockHash' = bestBlockHash]_vars

\* C39: after any sequence of StoreBlock and TipToSideChain calls the best
\* hash and the best height of the facade name a block whose is_mainchain
\* flag is true, and storing a side chain block moves neither
C39_BestBlockOnMainChain == []BestIsMainchain /\ SideChainStoreKeepsBest

\* StoreBlock has returned without error from storing a side chain block
\* and the best hash of the facade is that block
C39_BestIsSideChainBlock ==
    /\ pc = "idle"
    /\ ret.op = "store" /\ ret.err = "nil"
    /\ bestBlockHash \in DOMAIN db.blocks
    /\ ~db.blocks[bestBlockHash].is_mainchain
    /\ bestBlockHash = ret.block /\ ~ret.isMainchain

----------------------------------------------------------------------------
(* UpdateSpendingInfoInAllAddresses: the chunks and the result *)

\* the address rows set by the chunks of log that did not fail
RECURSIVE RowsSetBy(_)
RowsSetBy(log) ==
    IF log = << >> THEN 0
    ELSE (IF Head(log).o = "ok" THEN Head(log).to - Head(log).from ELSE 0)
            + RowsSetBy(Tail(log))

\* the call has returned after RetrieveAllVinDbIDs gave it the row ids
RebuildReturned == upd.returned /\ upd.pc = "idle"

\* the chunks given to storage are consecutive slices of the row ids, none
\* empty and none longer than updatesPerDBTx, from the first id to the last
ChunksInOrder ==
    RebuildReturned =>
        /\ upd.log = << >> <=> upd.totalVinIbIDs = 0
        /\ upd.log # << >> =>
                /\ upd.log[1].from = 0
                /\ upd.log[Len(upd.log)].to = upd.totalVinIbIDs
        /\ \A k \in 1..Len(upd.log) :
                /\ upd.log[k].from < upd.log[k].to
                /\ upd.log[k].to - upd.log[k].from <= updatesPerDBTx
                /\ k < Len(upd.log) => upd.log[k + 1].from = upd.log[k].to

\* the count returned is the number of rows the successful chunks set
CountOfSuccessfulChunks ==
    RebuildReturned => upd.ret.numAddresses = RowsSetBy(upd.log)

\* a chunk of the call failed
SomeChunkFailed == \E k \in 1..Len(upd.log) : upd.log[k].o # "ok"

\* C40: every input row identifier is passed to storage once, in order, in
\* consecutive chunks of at most updatesPerDBTx; a failed chunk is skipped
\* and the following chunks are processed; the count returned is the sum
\* of the rows set by the successful chunks; and the call returns a
\* non-nil error if any chunk failed
C40_ChunksCountAndError ==
    /\ ChunksInOrder
    /\ CountOfSuccessfulChunks
    /\ (RebuildReturned /\ SomeChunkFailed) => upd.ret.err # "nil"

\* what holds of C40: the chunks and the count
C40_ChunksAndCount == ChunksInOrder /\ CountOfSuccessfulChunks

\* the first chunk failed, a later chunk did not, and the call returned
\* the rows of the later chunks and a nil error
C40_ErrorLost ==
    /\ RebuildReturned
    /\ Len(upd.log) >= 2
    /\ upd.log[1].o # "ok"
    /\ upd.log[Len(upd.log)].o = "ok"
    /\ upd.ret.err = "nil"
    /\ upd.ret.numAddresses > 0

====
